---- MODULE Spec2Model ----
(***************************************************************************)
(* Model of the word-game engine of src/main.py: one chat room, its        *)
(* GameState objects, the message/command handlers of the bot, and the     *)
(* asyncio tasks (handle_turn_timeout, cpu_turn) that interleave with the  *)
(* handlers at their await points.                                         *)
(*                                                                         *)
(* Scheduling: the Application is built without concurrent_updates, so     *)
(* update handlers run one after the other (one `handler` slot); tasks     *)
(* made with asyncio.create_task run on the same loop and take a step      *)
(* whenever the running coroutine is suspended at an await.  Each action   *)
(* below is the code between two consecutive awaits of one coroutine.      *)
(* Time is abstract: a sleeping task may wake at any moment.               *)
(***************************************************************************)
EXTENDS Integers, Sequences, FiniteSets, TLC

----------------------------------------------------------------------------
(* Bounds of the model *)

NumUsers == 3
\* human users of the room are 1..NumUsers
NumLetters == 2
\* random.choice(string.ascii_lowercase) is drawn from the first NumLetters letters
MaxTurns == 3
\* no handler or task advances a game whose turn_count has reached MaxTurns
MaxCalls == 37
\* calls of next_turn followed in one game when nothing else is followed
AuthorityLimit == 1
\* the largest number the owner gives /authority as a limit
ScanRoster == 4
\* the largest roster in which the scan for the next alive player is followed
MaxTasks == 2
\* number of asyncio tasks alive at once
MaxGames == 1
\* number of GameState objects alive (referenced) at once
InitBoost == 1
\* hint, skip and rebound entitlements one user owns at the start

----------------------------------------------------------------------------
(* Program constants *)

CPU_ID == 999999
NerdStartLength == 3
NerdMaxLength == 15
ChaosMinLength == 3
ChaosMaxLength == 12
DifficultyEvery == 6
BaseTime == 30
TimeStep == 5
MinTime == 5
HintLimit == 3
\* booster_limits: the value of a booster switched off with "null", and the
\* model's value for float('inf'), which "0" and the constructor store
Disabled == -1
Unlimited == 0
\* the boosts a user can spend in a game
BoostKinds == {"hint", "skip", "rebound"}
\* DIFFICULTY_MODES: start_length and max_length of every difficulty
DIFFICULTY_MODES ==
  [ easy   |-> [start_length |-> 3, max_length |-> 10],
    medium |-> [start_length |-> 3, max_length |-> 15],
    hard   |-> [start_length |-> 4, max_length |-> 20] ]
Difficulties == DOMAIN DIFFICULTY_MODES

Users == 1..NumUsers
\* user ids are opaque: the user who opens lobbies and starts solo games is
\* user 1, and the others join a lobby in the order of their ids
Starters == {1}
AllIds == Users \cup {CPU_ID}
Letters == 97..(96 + NumLetters)
TaskIds == 1..MaxTasks
GameIds == 1..MaxGames

\* "aab", "aba", "baa", "abba": the word list (load_dictionary), all lowercase
dictionary == { <<97, 97, 98>>, <<97, 98, 97>>, <<98, 97, 97>>, <<97, 98, 98, 97>> }

\* message texts users type: the words, "AAB", " aba", "a b", "ab", "bbb"
Texts == dictionary \cup { <<65, 65, 66>>, <<32, 97, 98, 97>>, <<97, 32, 98>>,
                           <<97, 98>>, <<98, 98, 98>> }

----------------------------------------------------------------------------
(* str helpers used by handle_message *)

Min(x, y) == IF x < y THEN x ELSE y
Max(x, y) == IF x > y THEN x ELSE y

\* str.lower() on one character code
LowerChar(c) == IF c >= 65 /\ c <= 90 THEN c + 32 ELSE c
\* str.lower()
Lower(s) == [i \in 1..Len(s) |-> LowerChar(s[i])]

RECURSIVE LStrip(_)
LStrip(s) == IF s # <<>> /\ Head(s) = 32 THEN LStrip(Tail(s)) ELSE s
RECURSIVE RStrip(_)
RStrip(s) == IF s # <<>> /\ s[Len(s)] = 32 THEN RStrip(SubSeq(s, 1, Len(s) - 1)) ELSE s
\* str.strip()
Strip(s) == RStrip(LStrip(s))
\* ' ' in s
HasSpace(s) == \E i \in 1..Len(s) : s[i] = 32
\* word.startswith(letter); the letter '' of a fresh GameState is 0
StartsWith(w, letter) == letter = 0 \/ (w # <<>> /\ w[1] = letter)

----------------------------------------------------------------------------
(* GameState *)

NoStreak == -1

\* GameState.__init__; wraps is history, not a field of the code: the number
\* of times current_player_index has come back to 0 since the game began
GameStateInit ==
  [ is_running |-> FALSE, is_lobby_open |-> FALSE, players |-> <<>>,
    current_player_index |-> 0, current_word_length |-> 3,
    current_start_letter |-> 0, used_words |-> {}, turn_count |-> 0,
    player_streaks |-> [u \in AllIds |-> NoStreak], eliminated_players |-> {},
    difficulty_level |-> 0, timeout_task |-> 0, group_owner |-> 0,
    is_practice |-> FALSE, is_cpu_game |-> FALSE, game_mode |-> "nerd",
    booster_limits |-> [hint |-> Unlimited, skip |-> Unlimited, rebound |-> Unlimited],
    difficulty |-> "medium", wraps |-> 0 ]

\* GameState.reset; the cancellation of timeout_task is ResetTasks
reset(g, letter) ==
  [ g EXCEPT !.is_running = FALSE, !.is_lobby_open = FALSE, !.players = <<>>,
             !.current_player_index = 0, !.difficulty = "medium",
             !.current_word_length = DIFFICULTY_MODES["medium"].start_length,
             !.current_start_letter = letter, !.used_words = {},
             !.turn_count = 0, !.player_streaks = [u \in AllIds |-> NoStreak],
             !.eliminated_players = {}, !.difficulty_level = 0,
             !.group_owner = 0, !.timeout_task = 0, !.wraps = 0,
             !.booster_limits = [hint |-> Unlimited, skip |-> Unlimited,
                                 rebound |-> Unlimited] ]

\* an index that next_turn leaves where it is
NextIndex_stuck(g) == g.current_player_index

\* the index next_turn moves to
NextIndex(g) == (g.current_player_index + 1) % Len(g.players)

\* a length that grows with every turn instead of every round
NerdLength_per_turn(g, turns) == Min(NerdStartLength + turns, NerdMaxLength)

\* the length next_turn gives the challenge in nerd mode
NerdLength(g, turns) ==
  LET num_players == IF Len(g.players) > 0 THEN Len(g.players) ELSE 1
      rounds_completed == turns \div num_players
  IN  Min(NerdStartLength + rounds_completed, NerdMaxLength)

\* a next_turn that regenerates the challenge whatever preserve_challenge is
next_turn_regenerating(g, preserve_challenge, letter, chaos_len) ==
  LET turns == g.turn_count + 1
  IN  [ g EXCEPT !.current_player_index = NextIndex(g),
                 !.wraps = IF NextIndex(g) = 0 THEN @ + 1 ELSE @,
                 !.turn_count = turns,
                 !.current_start_letter = letter,
                 !.current_word_length = IF g.game_mode = "chaos" THEN chaos_len
                                         ELSE NerdLength(g, turns),
                 !.difficulty_level = IF turns % DifficultyEvery = 0 THEN @ + 1 ELSE @ ]

\* a next_turn whose difficulty_level counts the completed rounds
next_turn_level_per_round(g, preserve_challenge, letter, chaos_len) ==
  LET turns == g.turn_count + 1
      len == IF preserve_challenge THEN g.current_word_length
             ELSE IF g.game_mode = "chaos" THEN chaos_len
             ELSE NerdLength(g, turns)
      let == IF preserve_challenge THEN g.current_start_letter ELSE letter
  IN  [ g EXCEPT !.current_player_index = NextIndex(g),
                 !.wraps = IF NextIndex(g) = 0 THEN @ + 1 ELSE @,
                 !.turn_count = turns,
                 !.current_start_letter = let,
                 !.current_word_length = len,
                 !.difficulty_level = IF NextIndex(g) = 0 THEN @ + 1 ELSE @ ]

\* GameState.next_turn; letter and chaos_len are the two random draws
next_turn(g, preserve_challenge, letter, chaos_len) ==
  LET turns == g.turn_count + 1
      len == IF preserve_challenge THEN g.current_word_length
             ELSE IF g.game_mode = "chaos" THEN chaos_len
             ELSE NerdLength(g, turns)
      let == IF preserve_challenge THEN g.current_start_letter ELSE letter
  IN  [ g EXCEPT !.current_player_index = NextIndex(g),
                 !.wraps = IF NextIndex(g) = 0 THEN @ + 1 ELSE @,
                 !.turn_count = turns,
                 !.current_start_letter = let,
                 !.current_word_length = len,
                 !.difficulty_level = IF turns % DifficultyEvery = 0 THEN @ + 1 ELSE @ ]

\* random.randint(3, 12), drawn only in chaos mode
ChaosLengths(g) ==
  IF g.game_mode = "chaos" THEN ChaosMinLength..ChaosMaxLength ELSE {ChaosMinLength}

\* a turn time without the floor
get_turn_time_unfloored(g) == BaseTime - g.difficulty_level * TimeStep

\* GameState.get_turn_time
get_turn_time(g) == Max(MinTime, BaseTime - g.difficulty_level * TimeStep)

\* GameState.get_streak
get_streak(g, u) == IF g.player_streaks[u] = NoStreak THEN 0 ELSE g.player_streaks[u]

\* an increment_streak that counts the word twice
increment_streak_twice(g, u) == [ g EXCEPT !.player_streaks[u] = get_streak(g, u) + 2 ]

\* GameState.increment_streak
increment_streak(g, u) == [ g EXCEPT !.player_streaks[u] = get_streak(g, u) + 1 ]

\* GameState.initialize_player_stats
initialize_player_stats(g, u) ==
  IF g.player_streaks[u] = NoStreak THEN [ g EXCEPT !.player_streaks[u] = 0 ] ELSE g

\* a candidate list that keeps the words already used
ValidWords_with_used(len, letter, used) ==
  { w \in dictionary : Len(w) = len /\ StartsWith(w, letter) }

\* the candidate list of get_cpu_word (and of the hint command with used = {})
ValidWords(len, letter, used) ==
  { w \in dictionary : Len(w) = len /\ StartsWith(w, letter) /\ w \notin used }

\* players[current_player_index]['id'], defined when the index is in range
HasCurrent(g) == g.current_player_index + 1 <= Len(g.players)
CurrentId(g) == g.players[g.current_player_index + 1]

\* p['id'] for p in players
PlayerIds(g) == { g.players[i] : i \in 1..Len(g.players) }

\* len(eliminated_players) >= len(players) - 1
WinReached(g) == Cardinality(g.eliminated_players) >= Len(g.players) - 1

\* next((p for p in players if p['id'] not in eliminated_players), None); 0 is None
Winner(g) ==
  LET alive == { i \in 1..Len(g.players) : g.players[i] \notin g.eliminated_players }
  IN  IF alive = {} THEN 0
      ELSE g.players[CHOOSE i \in alive : \A j \in alive : i <= j]

----------------------------------------------------------------------------
(* State *)

VARIABLES
  games,     \* games[chat_id]: the id of the room's GameState object, 0 when absent
  heap,      \* the GameState objects
  tasks,     \* the asyncio tasks made with create_task
  handler,   \* the update handler being processed and its local variables
  inv,       \* inventory table of the database: entitlements per user
  ghost      \* history of the current game: winner messages, win-detection
             \* resets, the increments of games_played in the stats table, and
             \* whether /stop has reset the game

vars == <<games, heap, tasks, handler, inv, ghost>>

\* the handler: the await it waits in (pc), the sender, its locals game,
\* next_player and newly_unlocked, and the turn_count of next_player's turn
\* a task: the coroutine (kind), the await it waits in (pc), its arguments and
\* locals, and the turn its timer is for: {turn_count}, or {} once that turn
\* has ended
NoTask == [kind |-> "none", pc |-> "done", user |-> 0, game |-> 0, next |-> 0, turn |-> {}]
Idle == [pc |-> "idle", user |-> 0, game |-> 0, next |-> 0, unlocked |-> FALSE, turn |-> {}]

\* a timeout task is armed while it waits in asyncio.sleep(turn_time)
Armed(ts) == { t \in TaskIds : ts[t].kind = "timeout" /\ ts[t].pc = "sleep" }

FreeTasks(ts) == { t \in TaskIds : ts[t].kind = "none" }
NewTaskId(ts) == CHOOSE t \in FreeTasks(ts) : \A o \in FreeTasks(ts) : t <= o

\* an object is alive while the registry, a task or the handler refers to it
Referenced(g, gs, ts, hd) ==
  gs = g \/ hd.game = g \/ \E t \in TaskIds : ts[t].game = g
FreeGames == { g \in GameIds : ~Referenced(g, games, tasks, handler) }
NewGameId == CHOOSE g \in FreeGames : \A o \in FreeGames : g <= o

\* the turn a coroutine has chosen next_player for, as a set of turn counts:
\* it is empty as soon as object g is not running or counts another turn
TurnOf(h, g, turn) ==
  IF g # 0 /\ h[g].is_running /\ turn = {h[g].turn_count} THEN turn ELSE {}

\* object ids are opaque: the registered object takes id 1 and swaps ids
\* with the object that had it
Rename(gs, g) ==
  IF gs = 0 \/ g = 0 THEN g
  ELSE IF g = gs THEN 1
  ELSE IF g = 1 THEN gs
  ELSE g

\* the next state; objects nobody refers to any more are dropped, and a
\* timeout_task that is done is the same as None to every reader of the field
Commit(h, gs, ts, hd) ==
  /\ games' = Rename(gs, gs)
  /\ tasks' = [ t \in TaskIds |->
                  IF ts[t].kind = "timeout" /\ ts[t].pc = "sleep"
                  THEN [ ts[t] EXCEPT !.turn = TurnOf(h, gs, @) ]
                  ELSE IF ts[t].next # 0
                       THEN [ ts[t] EXCEPT !.turn = TurnOf(h, ts[t].game, @),
                                           !.game = Rename(gs, @) ]
                       ELSE [ ts[t] EXCEPT !.game = Rename(gs, @) ] ]
  /\ handler' = IF hd.next # 0
                THEN [ hd EXCEPT !.turn = TurnOf(h, hd.game, @),
                                 !.game = Rename(gs, @) ]
                ELSE [ hd EXCEPT !.game = Rename(gs, @) ]
  /\ heap' = [ g \in GameIds |->
                 LET o == Rename(gs, g)
                 IN  IF ~Referenced(o, gs, ts, hd) THEN GameStateInit
                     ELSE IF h[o].timeout_task # 0 /\ ts[h[o].timeout_task].kind = "none"
                          THEN [ h[o] EXCEPT !.timeout_task = 0 ]
                          ELSE h[o] ]

\* the next state together with the history of the game
CommitH(h, gs, ts, hd, gh) == Commit(h, gs, ts, hd) /\ ghost' = gh

\* Task.cancel(): CancelledError is raised at the await the task waits in and
\* handle_turn_timeout swallows it (except asyncio.CancelledError: pass)
Cancel(ts, t) == IF t = 0 THEN ts ELSE [ ts EXCEPT ![t] = NoTask ]

\* GameState.cancel_timeout
cancel_timeout(g) == [ g EXCEPT !.timeout_task = 0 ]

\* a create_task whose task ends at once
TimeoutTask_unarmed(gs, u, turn) == NoTask

\* asyncio.create_task(handle_turn_timeout(chat_id, user_id, application)) up
\* to its first await: it returns at once when chat_id is not in games
TimeoutTask(gs, u, turn) ==
  IF gs = 0 THEN NoTask
  ELSE [kind |-> "timeout", pc |-> "sleep", user |-> u, game |-> 0, next |-> 0,
        turn |-> turn]

\* asyncio.create_task(cpu_turn(chat_id, application)) up to its first await
CpuTask(gs) ==
  IF gs = 0 THEN NoTask
  ELSE [kind |-> "cpu", pc |-> "think", user |-> CPU_ID, game |-> gs, next |-> 0,
        turn |-> {}]

\* DatabaseManager.get_inventory: a user without a row owns nothing
get_inventory(iv, u) ==
  IF u \in Users THEN iv[u]
  ELSE [hint |-> 0, skip |-> 0, rebound |-> 0, streak_protect |-> 0]

\* a use_boost that takes two of the boost
use_boost_twice(iv, u, kind) ==
  IF u \in Users THEN [ iv EXCEPT ![u][kind] = @ - 2 ] ELSE iv

\* DatabaseManager.use_boost
use_boost(iv, u, kind) ==
  IF u \in Users THEN [ iv EXCEPT ![u][kind] = @ - 1 ] ELSE iv

\* a reset_streak that ignores the streak protection
reset_streak_always(g, iv, u) ==
  IF g.player_streaks[u] # NoStreak THEN [ g EXCEPT !.player_streaks[u] = 0 ] ELSE g

\* GameState.reset_streak: the game after the call
reset_streak(g, iv, u) ==
  IF g.player_streaks[u] # NoStreak /\ get_inventory(iv, u).streak_protect <= 0
  THEN [ g EXCEPT !.player_streaks[u] = 0 ] ELSE g

\* a reset_streak that takes a streak protection without looking at the count
reset_streak_inv_unchecked(g, iv, u) ==
  IF g.player_streaks[u] # NoStreak
  THEN use_boost(iv, u, "streak_protect") ELSE iv

\* GameState.reset_streak: the inventory after the call
reset_streak_inv(g, iv, u) ==
  IF g.player_streaks[u] # NoStreak /\ get_inventory(iv, u).streak_protect > 0
  THEN use_boost(iv, u, "streak_protect") ELSE iv

NoHistory ==
  [wins |-> 0, ends |-> 0, played |-> [u \in AllIds |-> 0], stopped |-> FALSE,
   uses |-> [k \in BoostKinds |-> [round |-> 0, count |-> 0]]]
\* a boost of the kind is accepted in round `round` of the game
Used(gh, kind, round) ==
  [ gh EXCEPT !.uses[kind] = IF @.round = round
                             THEN [ @ EXCEPT !.count = @ + 1 ]
                             ELSE [round |-> round, count |-> 1] ]
\* the owner sets the limit of the kind in round `round`: uses count from here
Limited(gh, kind, round) ==
  [ gh EXCEPT !.uses[kind] = [round |-> round, count |-> 0] ]
\* a winner message is sent / win detection resets the game
Reported(gh) == [ gh EXCEPT !.wins = @ + 1 ]
Ended(gh) == [ gh EXCEPT !.ends = @ + 1 ]
\* db.increment_games_played(id) for every id in ids
Played(gh, ids) ==
  [ gh EXCEPT !.played = [ u \in AllIds |-> IF u \in ids THEN @[u] + 1 ELSE @[u] ] ]

\* the inventory table in which one user owns skips and rebounds, and has
\* bought `hints` hints and `protect` streak protections
Inventory(owner, hints, protect) ==
  [ u \in Users |->
      IF u = owner
      THEN [hint |-> hints, skip |-> InitBoost, rebound |-> InitBoost,
            streak_protect |-> protect]
      ELSE [hint |-> 0, skip |-> 0, rebound |-> 0, streak_protect |-> 0] ]

\* no game in the room and no task
InitWith(hints, protect) ==
  /\ games = 0
  /\ heap = [ g \in GameIds |-> GameStateInit ]
  /\ tasks = [ t \in TaskIds |-> NoTask ]
  /\ handler = Idle
  /\ \E owner \in Users : inv = Inventory(owner, hints, protect)
  /\ ghost = NoHistory

Init == InitWith(0, 0)
InitHints == InitWith(InitBoost, 0)
InitProtected == InitWith(0, InitBoost)

----------------------------------------------------------------------------
(* /lobby, /join, /begin, /stop, /mode *)

\* lobby
Lobby(u) ==
  /\ handler.pc = "idle"
  /\ games # 0 \/ FreeGames # {}
  /\ LET gid == IF games = 0 THEN NewGameId ELSE games
         g == heap[gid]
     IN  /\ ~g.is_running
         /\ ~g.is_lobby_open
         /\ \E letter \in Letters :
              LET r == reset(g, letter)
                  opened == [ r EXCEPT !.is_lobby_open = TRUE, !.group_owner = u,
                                       !.players = <<u>> ]
              IN  Commit([ heap EXCEPT ![gid] = opened ], gid,
                         Cancel(tasks, g.timeout_task), handler)
  /\ UNCHANGED <<inv, ghost>>

\* a join that does not look for the id in the roster
Join_duplicating(u) ==
  /\ handler.pc = "idle"
  /\ games # 0
  /\ heap[games].is_lobby_open
  /\ Len(heap[games].players) < NumUsers
  /\ LET g == heap[games]
         joined == initialize_player_stats([ g EXCEPT !.players = Append(@, u) ], u)
     IN  Commit([ heap EXCEPT ![games] = joined ], games, tasks, handler)
  /\ UNCHANGED <<inv, ghost>>

\* join
Join(u) ==
  /\ handler.pc = "idle"
  /\ games # 0
  /\ heap[games].is_lobby_open
  /\ u \notin PlayerIds(heap[games])
  /\ \A o \in Users \ PlayerIds(heap[games]) : u <= o
  /\ LET g == heap[games]
         joined == initialize_player_stats([ g EXCEPT !.players = Append(@, u) ], u)
     IN  Commit([ heap EXCEPT ![games] = joined ], games, tasks, handler)
  /\ UNCHANGED <<inv, ghost>>

\* join up to the reply_text of "No lobby open." or "You are already in."
JoinRefuse(u) ==
  /\ handler.pc = "idle"
  /\ IF games = 0 THEN TRUE
     ELSE ~heap[games].is_lobby_open \/ u \in PlayerIds(heap[games])
  /\ Commit(heap, games, tasks,
            [pc |-> "join_refused", user |-> u, game |-> games, next |-> 0,
             unlocked |-> FALSE, turn |-> {}])
  /\ UNCHANGED <<inv, ghost>>

\* join after that reply_text: return
JoinRefused ==
  /\ handler.pc = "join_refused"
  /\ Commit(heap, games, tasks, Idle)
  /\ UNCHANGED <<inv, ghost>>

RECURSIVE InitAll(_, _)
\* for player in game.players: game.initialize_player_stats(player['id'])
InitAll(g, i) ==
  IF i > Len(g.players) THEN g
  ELSE InitAll(initialize_player_stats(g, g.players[i]), i + 1)

\* a begin_game that leaves the lobby open
Begin_lobby_open(u) ==
  /\ handler.pc = "idle"
  /\ games # 0
  /\ heap[games].is_lobby_open
  /\ Len(heap[games].players) >= 2
  /\ \E letter \in Letters, chaos_len \in ChaosLengths(heap[games]) :
       LET g == InitAll(heap[games], 1)
           started == [ g EXCEPT !.is_running = TRUE,
                                 !.turn_count = 0, !.current_player_index = 0,
                                 !.wraps = 0,
                                 !.eliminated_players = {}, !.used_words = {},
                                 !.current_start_letter = letter,
                                 !.current_word_length =
                                    IF g.game_mode = "chaos" THEN chaos_len
                                    ELSE NerdStartLength ]
       IN  CommitH([ heap EXCEPT ![games] = started ], games, tasks,
                  [pc |-> "begin_reply", user |-> u, game |-> games,
                   next |-> started.players[1], unlocked |-> FALSE,
                   turn |-> {started.turn_count}],
                  NoHistory)
  /\ UNCHANGED inv

\* begin_game up to its reply_text
Begin(u) ==
  /\ handler.pc = "idle"
  /\ games # 0
  /\ heap[games].is_lobby_open
  /\ Len(heap[games].players) >= 2
  /\ \E letter \in Letters, chaos_len \in ChaosLengths(heap[games]) :
       LET g == InitAll(heap[games], 1)
           started == [ g EXCEPT !.is_lobby_open = FALSE, !.is_running = TRUE,
                                 !.turn_count = 0, !.current_player_index = 0,
                                 !.wraps = 0,
                                 !.eliminated_players = {}, !.used_words = {},
                                 !.current_start_letter = letter,
                                 !.current_word_length =
                                    IF g.game_mode = "chaos" THEN chaos_len
                                    ELSE NerdStartLength ]
       IN  CommitH([ heap EXCEPT ![games] = started ], games, tasks,
                  [pc |-> "begin_reply", user |-> u, game |-> games,
                   next |-> started.players[1], unlocked |-> FALSE,
                   turn |-> {started.turn_count}],
                  NoHistory)
  /\ UNCHANGED inv

\* begin_game refuses: no lobby is open or the roster has one player
BeginRefusal == ~heap[games].is_lobby_open \/ Len(heap[games].players) < 2

\* begin_game up to the reply_text of "No lobby active." or "You need at
\* least 2 players!"; without a game in the room it returns at once
BeginRefuse(u) ==
  /\ handler.pc = "idle"
  /\ IF games = 0 THEN Commit(heap, games, tasks, Idle)
     ELSE /\ BeginRefusal
          /\ Commit(heap, games, tasks,
                    [pc |-> "begin_refused", user |-> u, game |-> games, next |-> 0,
                     unlocked |-> FALSE, turn |-> {}])
  /\ UNCHANGED <<inv, ghost>>

\* begin_game after that reply_text: return
BeginRefused ==
  /\ handler.pc = "begin_refused"
  /\ Commit(heap, games, tasks, Idle)
  /\ UNCHANGED <<inv, ghost>>

\* game.timeout_task = asyncio.create_task(handle_turn_timeout(chat_id, next, ...)),
\* the last statement of every handler that starts a turn
ArmFromHandler ==
  /\ FreeTasks(tasks) # {}
  /\ LET t == NewTaskId(tasks)
         task == TimeoutTask(games, handler.next, handler.turn)
     IN  Commit([ heap EXCEPT ![handler.game].timeout_task =
                                 IF task.kind = "none" THEN 0 ELSE t ],
                games, [ tasks EXCEPT ![t] = task ], Idle)
  /\ UNCHANGED <<inv, ghost>>

\* begin_game after its reply_text
BeginArm ==
  /\ handler.pc = "begin_reply"
  /\ ArmFromHandler

\* stop_game up to get_chat_member; is_admin is the answer of the call, and
\* user is not read after it
Stop(u) ==
  /\ handler.pc = "idle"
  /\ games # 0
  /\ \E is_admin \in BOOLEAN :
       /\ u = heap[games].group_owner \/ is_admin
       /\ Commit(heap, games, tasks,
                 [pc |-> "stop_auth", user |-> 0, game |-> games, next |-> 0,
                  unlocked |-> FALSE, turn |-> {}])
  /\ UNCHANGED <<inv, ghost>>

\* GameState.reset on object gid as called by a handler or a task
ResetHeap(h, gid, letter) == [ h EXCEPT ![gid] = reset(h[gid], letter) ]
ResetTasks(h, ts, gid) == Cancel(ts, h[gid].timeout_task)

\* stop_game after get_chat_member: game.reset()
StopReset ==
  /\ handler.pc = "stop_auth"
  /\ \E letter \in Letters :
       CommitH(ResetHeap(heap, handler.game, letter), games,
               ResetTasks(heap, tasks, handler.game), Idle,
               [ ghost EXCEPT !.stopped = TRUE ])
  /\ UNCHANGED inv

\* mode_command with an argument
Mode(u, new_mode) ==
  /\ handler.pc = "idle"
  /\ games # 0 \/ FreeGames # {}
  /\ LET gid == IF games = 0 THEN NewGameId ELSE games
     IN  /\ ~heap[gid].is_running
         /\ Commit([ heap EXCEPT ![gid].game_mode = new_mode ], gid, tasks, handler)
  /\ UNCHANGED <<inv, ghost>>

----------------------------------------------------------------------------
(* handle_message: a word typed by a user *)

\* word = update.message.text.strip().lower()
NormalWord(text) == Lower(Strip(text))

\* the checks of handle_message without the dictionary lookup
Accepts_without_lookup(g, u, text) ==
  /\ g.is_running
  /\ HasCurrent(g)
  /\ u = CurrentId(g)
  /\ ~HasSpace(Strip(text))
  /\ Len(NormalWord(text)) = g.current_word_length
  /\ StartsWith(NormalWord(text), g.current_start_letter)
  /\ NormalWord(text) \notin g.used_words

\* the checks of handle_message without the one for used words
Accepts_used_again(g, u, text) ==
  /\ g.is_running
  /\ HasCurrent(g)
  /\ u = CurrentId(g)
  /\ ~HasSpace(Strip(text))
  /\ Len(NormalWord(text)) = g.current_word_length
  /\ StartsWith(NormalWord(text), g.current_start_letter)
  /\ NormalWord(text) \in dictionary

\* the checks of handle_message up to "Process the turn logic"
Accepts(g, u, text) ==
  /\ g.is_running
  /\ HasCurrent(g)
  /\ u = CurrentId(g)
  /\ ~HasSpace(Strip(text))
  /\ Len(NormalWord(text)) = g.current_word_length
  /\ StartsWith(NormalWord(text), g.current_start_letter)
  /\ NormalWord(text) \notin g.used_words
  /\ NormalWord(text) \in dictionary

\* cancel_timeout, used_words.add(word), increment_streak(user.id)
AcceptWord(g, u, word) ==
  increment_streak([ cancel_timeout(g) EXCEPT !.used_words = @ \cup {word} ], u)

\* handle_message from its start to reply_text(unlock_msg), taken when
\* db.auto_unlock_titles reports new titles
HandleMessageUnlock(u, text) ==
  /\ handler.pc = "idle"
  /\ games # 0
  /\ Accepts(heap[games], u, text)
  /\ heap[games].turn_count < MaxTurns
  /\ Commit([ heap EXCEPT ![games] = AcceptWord(heap[games], u, NormalWord(text)) ],
            games, Cancel(tasks, heap[games].timeout_task),
            [pc |-> "word_unlock", user |-> u, game |-> games, next |-> 0,
             unlocked |-> TRUE, turn |-> {}])
  /\ UNCHANGED <<inv, ghost>>

\* difficulty_increased = game.next_turn() and the choice of next_player
WordAdvance(h, gid, u, ts) ==
  \E letter \in Letters, chaos_len \in ChaosLengths(h[gid]) :
    LET g == next_turn(h[gid], FALSE, letter, chaos_len)
    IN  Commit([ h EXCEPT ![gid] = g ], games, ts,
               [pc |-> "word_reply", user |-> u, game |-> gid, next |-> CurrentId(g),
                unlocked |-> handler.unlocked, turn |-> {g.turn_count}])

\* handle_message from its start to reply_text(msg_text), no title unlocked
HandleMessage(u, text) ==
  /\ handler.pc = "idle"
  /\ games # 0
  /\ Accepts(heap[games], u, text)
  /\ heap[games].turn_count < MaxTurns
  /\ WordAdvance([ heap EXCEPT ![games] = AcceptWord(heap[games], u, NormalWord(text)) ],
                 games, u, Cancel(tasks, heap[games].timeout_task))
  /\ UNCHANGED <<inv, ghost>>

\* handle_message from reply_text(unlock_msg) to reply_text(msg_text); with an
\* empty roster next_turn raises ZeroDivisionError and the handler ends
HandleMessageUnlocked ==
  /\ handler.pc = "word_unlock"
  /\ IF heap[handler.game].players = <<>>
     THEN Commit(heap, games, tasks, Idle)
     ELSE WordAdvance(heap, handler.game, handler.user, tasks)
  /\ UNCHANGED <<inv, ghost>>

\* handle_message after reply_text(msg_text): the CPU turn or the next timer
HandleMessageArm ==
  /\ handler.pc = "word_reply"
  /\ FreeTasks(tasks) # {}
  /\ IF heap[handler.game].is_cpu_game /\ handler.next = CPU_ID
     THEN /\ Commit(heap, games, [ tasks EXCEPT ![NewTaskId(tasks)] = CpuTask(games) ], Idle)
          /\ UNCHANGED <<inv, ghost>>
     ELSE ArmFromHandler

\* handle_message when db.auto_unlock_titles raises (line 2713 is outside
\* the try of update_word_stats): the handler ends after "Process the turn
\* logic" and before next_turn
HandleMessageDbError(u, text) ==
  /\ handler.pc = "idle"
  /\ games # 0
  /\ Accepts(heap[games], u, text)
  /\ Commit([ heap EXCEPT ![games] = AcceptWord(heap[games], u, NormalWord(text)) ],
            games, Cancel(tasks, heap[games].timeout_task), Idle)
  /\ UNCHANGED <<inv, ghost>>

\* the four validation failures of handle_message, each answered with a reply
Rejects(g, u, text) ==
  /\ g.is_running
  /\ HasCurrent(g)
  /\ u = CurrentId(g)
  /\ ~HasSpace(Strip(text))
  /\ \/ Len(NormalWord(text)) # g.current_word_length
     \/ ~StartsWith(NormalWord(text), g.current_start_letter)
     \/ NormalWord(text) \in g.used_words
     \/ NormalWord(text) \notin dictionary

\* a validation that asks used_words first
Rejection_used_first(g, word) ==
  IF word \in g.used_words THEN "used"
  ELSE IF Len(word) # g.current_word_length THEN "length"
  ELSE IF ~StartsWith(word, g.current_start_letter) THEN "letter"
  ELSE IF word \notin dictionary THEN "lexicon"
  ELSE "none"

\* the reply of the validation of handle_message: "Word must be exactly ...",
\* "Must start with ...", "Word already used!", "Not in my dictionary!"
Rejection(g, word) ==
  IF Len(word) # g.current_word_length THEN "length"
  ELSE IF ~StartsWith(word, g.current_start_letter) THEN "letter"
  ELSE IF word \in g.used_words THEN "used"
  ELSE IF word \notin dictionary THEN "lexicon"
  ELSE "none"

\* handle_message from its start to the reply_text of a rejection
HandleMessageReject(u, text) ==
  /\ handler.pc = "idle"
  /\ games # 0
  /\ Rejects(heap[games], u, text)
  /\ Commit(heap, games, tasks,
            [pc |-> "word_reject", user |-> u, game |-> games, next |-> 0,
             unlocked |-> FALSE, turn |-> {}, word |-> NormalWord(text),
             reason |-> Rejection(heap[games], NormalWord(text))])
  /\ UNCHANGED <<inv, ghost>>

\* handle_message after the reply_text of a rejection: return
HandleMessageRejected ==
  /\ handler.pc = "word_reject"
  /\ Commit(heap, games, tasks, Idle)
  /\ UNCHANGED <<inv, ghost>>

----------------------------------------------------------------------------
(* /forfeit, /skip, /rebound *)

\* a scan that stops at the first player it looks at
SkipEliminated_first(g, fuel, letter, chaos_len) == g

RECURSIVE SkipEliminated(_, _, _, _)
\* while next_player['id'] in eliminated_players [and iterations < max]: next_turn()
SkipEliminated(g, fuel, letter, chaos_len) ==
  IF CurrentId(g) \in g.eliminated_players /\ fuel > 0
  THEN SkipEliminated(next_turn(g, FALSE, letter, chaos_len), fuel - 1, letter, chaos_len)
  ELSE g

\* forfeit_command up to its first reply_text
Forfeit(u) ==
  /\ handler.pc = "idle"
  /\ games # 0
  /\ heap[games].is_running
  /\ HasCurrent(heap[games])
  /\ u = CurrentId(heap[games])
  /\ heap[games].turn_count < MaxTurns
  /\ LET g == heap[games]
         out == [ cancel_timeout(g) EXCEPT !.eliminated_players = @ \cup {u} ]
     IN  /\ Commit([ heap EXCEPT ![games] = reset_streak(out, inv, u) ], games,
                   Cancel(tasks, g.timeout_task),
                   [pc |-> "forfeit_reply", user |-> u, game |-> games, next |-> 0,
                    unlocked |-> FALSE, turn |-> {}])
         /\ inv' = reset_streak_inv(g, inv, u)
         /\ UNCHANGED ghost

\* forfeit_command from next_turn() to the reply_text it reaches next
ForfeitAdvance ==
  /\ handler.pc = "forfeit_reply"
  /\ LET gid == handler.game
     IN  IF heap[gid].players = <<>>
         THEN CommitH(heap, games, tasks, Idle, ghost)
         ELSE \E letter \in Letters, chaos_len \in ChaosLengths(heap[gid]) :
                LET g == next_turn(heap[gid], FALSE, letter, chaos_len)
                    s == SkipEliminated(g, Len(g.players), letter, chaos_len)
                IN  IF WinReached(g)
                    THEN IF Winner(g) # 0
                         THEN CommitH([ heap EXCEPT ![gid] = g ], games, tasks,
                                      [ handler EXCEPT !.pc = "forfeit_win",
                                                       !.next = Winner(g) ],
                                      Reported(ghost))
                         ELSE CommitH(ResetHeap(heap, gid, letter), games,
                                      ResetTasks(heap, tasks, gid), Idle,
                                      Ended(ghost))
                    ELSE IF CurrentId(s) \in s.eliminated_players
                         THEN CommitH([ heap EXCEPT ![gid] = s ], games, tasks,
                                      [ handler EXCEPT !.pc = "hang" ], ghost)
                         ELSE CommitH([ heap EXCEPT ![gid] = s ], games, tasks,
                                      [ handler EXCEPT !.pc = "forfeit_prompt",
                                                       !.next = CurrentId(s),
                                                       !.turn = {s.turn_count} ],
                                      ghost)
  /\ UNCHANGED inv

\* forfeit_command after the GAME OVER reply: game.reset()
ForfeitWinReset ==
  /\ handler.pc = "forfeit_win"
  /\ \E letter \in Letters :
       CommitH(ResetHeap(heap, handler.game, letter), games,
               ResetTasks(heap, tasks, handler.game), Idle, Ended(ghost))
  /\ UNCHANGED inv

\* forfeit_command after the turn prompt
ForfeitArm ==
  /\ handler.pc = "forfeit_prompt"
  /\ ArmFromHandler

\* the two commands without the check of the inventory
Boost_unchecked(u, kind, preserve) ==
  /\ handler.pc = "idle"
  /\ games # 0
  /\ heap[games].is_running
  /\ HasCurrent(heap[games])
  /\ u = CurrentId(heap[games])
  /\ heap[games].turn_count < MaxTurns
  /\ inv' = use_boost(inv, u, kind)
  /\ UNCHANGED ghost
  /\ \E letter \in Letters, chaos_len \in ChaosLengths(heap[games]) :
       LET g == next_turn(cancel_timeout(heap[games]), preserve, letter, chaos_len)
       IN  Commit([ heap EXCEPT ![games] = g ], games,
                  Cancel(tasks, heap[games].timeout_task),
                  [pc |-> "boost_reply", user |-> u, game |-> games,
                   next |-> CurrentId(g), unlocked |-> FALSE, turn |-> {g.turn_count}])

\* skip_boost_command (preserve = FALSE) and rebound_boost_command (preserve =
\* TRUE) up to their reply_text; gh is the history after the command
BoostWith(u, kind, preserve, gh) ==
  /\ handler.pc = "idle"
  /\ games # 0
  /\ heap[games].is_running
  /\ HasCurrent(heap[games])
  /\ u = CurrentId(heap[games])
  /\ heap[games].booster_limits[kind] # Disabled
  /\ get_inventory(inv, u)[kind] > 0
  /\ heap[games].turn_count < MaxTurns
  /\ inv' = use_boost(inv, u, kind)
  /\ ghost' = gh
  /\ \E letter \in Letters, chaos_len \in ChaosLengths(heap[games]) :
       LET g == next_turn(cancel_timeout(heap[games]), preserve, letter, chaos_len)
       IN  Commit([ heap EXCEPT ![games] = g ], games,
                  Cancel(tasks, heap[games].timeout_task),
                  [pc |-> "boost_reply", user |-> u, game |-> games,
                   next |-> CurrentId(g), unlocked |-> FALSE, turn |-> {g.turn_count}])

\* the two commands, their uses not counted
Boost(u, kind, preserve) == BoostWith(u, kind, preserve, ghost)

\* skip_boost_command
Skip(u) == Boost(u, "skip", FALSE)

\* rebound_boost_command
Rebound(u) == Boost(u, "rebound", TRUE)

\* skip_boost_command and rebound_boost_command after their reply_text
BoostArm ==
  /\ handler.pc = "boost_reply"
  /\ ArmFromHandler

\* hint_boost_command, skip_boost_command and rebound_boost_command up to the
\* reply_text of "No ... boosts!"; the cooldown of check_rate_limit, which
\* makes /hint and /skip return at once, is outside the game
BoostReject(u, kind) ==
  /\ handler.pc = "idle"
  /\ games # 0
  /\ heap[games].is_running
  /\ HasCurrent(heap[games])
  /\ u = CurrentId(heap[games])
  /\ \/ heap[games].booster_limits[kind] = Disabled
     \/ get_inventory(inv, u)[kind] <= 0
  /\ Commit(heap, games, tasks,
            [pc |-> "boost_reject", user |-> u, game |-> games, next |-> 0,
             unlocked |-> FALSE, turn |-> {}])
  /\ UNCHANGED <<inv, ghost>>

\* the three commands after the reply_text of "No ... boosts!": return
BoostRejected ==
  /\ handler.pc = "boost_reject"
  /\ Commit(heap, games, tasks, Idle)
  /\ UNCHANGED <<inv, ghost>>

\* the words of the hint reply: the first HintLimit candidates in the
\* iteration order of the set game.dictionary, which is any order
HintReplies(g) ==
  LET cands == ValidWords(g.current_word_length, g.current_start_letter, {})
  IN  { ws \in SUBSET cands : Cardinality(ws) = Min(HintLimit, Cardinality(cands)) }

\* hint_boost_command up to its reply_text; words is the list it replies with
Hint(u) ==
  /\ handler.pc = "idle"
  /\ games # 0
  /\ heap[games].is_running
  /\ HasCurrent(heap[games])
  /\ u = CurrentId(heap[games])
  /\ heap[games].booster_limits.hint # Disabled
  /\ get_inventory(inv, u).hint > 0
  /\ \E words \in HintReplies(heap[games]) :
       /\ inv' = IF words # {} THEN use_boost(inv, u, "hint") ELSE inv
       /\ Commit(heap, games, tasks,
                 [pc |-> "hint_reply", user |-> u, game |-> games, next |-> 0,
                  unlocked |-> FALSE, turn |-> {}, words |-> words])
  /\ UNCHANGED ghost

\* hint_boost_command after its reply_text: return
HintReplied ==
  /\ handler.pc = "hint_reply"
  /\ Commit(heap, games, tasks, Idle)
  /\ UNCHANGED <<inv, ghost>>

----------------------------------------------------------------------------
(* /vscpu and /practice *)

\* the slot of a new GameState that replaces the registered one
ReplacingGameIds == { g \in GameIds : ~Referenced(g, 0, tasks, handler) }
ReplacingGameId == CHOOSE g \in ReplacingGameIds : \A o \in ReplacingGameIds : g <= o

\* vscpu_command up to its reply_text
Vscpu(u) ==
  /\ handler.pc = "idle"
  /\ ~(games # 0 /\ heap[games].is_running)
  /\ ReplacingGameIds # {}
  /\ \E letter \in Letters :
       LET gid == ReplacingGameId
           g == [ GameStateInit EXCEPT !.is_cpu_game = TRUE, !.is_running = TRUE,
                                       !.group_owner = u, !.players = <<u, CPU_ID>>,
                                       !.current_start_letter = letter,
                                       !.current_word_length = NerdStartLength ]
           started == initialize_player_stats(initialize_player_stats(g, u), CPU_ID)
       IN  CommitH([ heap EXCEPT ![gid] = started ], gid, tasks,
                  [pc |-> "vscpu_reply", user |-> u, game |-> gid, next |-> u,
                   unlocked |-> FALSE, turn |-> {started.turn_count}],
                  NoHistory)
  /\ UNCHANGED inv

\* vscpu_command after its reply_text
VscpuArm ==
  /\ handler.pc = "vscpu_reply"
  /\ ArmFromHandler

\* practice_command up to its reply_text
Practice(u) ==
  /\ handler.pc = "idle"
  /\ IF games = 0 THEN TRUE
     ELSE ~heap[games].is_running /\ ~heap[games].is_lobby_open
  /\ ReplacingGameIds # {}
  /\ \E letter \in Letters :
       LET gid == ReplacingGameId
           g == [ GameStateInit EXCEPT !.is_running = TRUE, !.is_practice = TRUE,
                                       !.players = <<u>> ]
           started == next_turn(initialize_player_stats(g, u), FALSE, letter,
                                ChaosMinLength)
       IN  CommitH([ heap EXCEPT ![gid] = started ], gid, tasks,
                  [pc |-> "practice_reply", user |-> u, game |-> gid, next |-> u,
                   unlocked |-> FALSE, turn |-> {started.turn_count}],
                  NoHistory)
  /\ UNCHANGED inv

\* practice_command after its reply_text
PracticeArm ==
  /\ handler.pc = "practice_reply"
  /\ ArmFromHandler

----------------------------------------------------------------------------
(* handle_turn_timeout: the task behind game.timeout_task *)

\* the end of task t: no field refers to it any more
ClearTask(h, t) ==
  [ g \in GameIds |-> IF h[g].timeout_task = t THEN [ h[g] EXCEPT !.timeout_task = 0 ]
                      ELSE h[g] ]

\* the check after asyncio.sleep: is it still this user's turn
StillTurn(g, user_id) == g.is_running /\ CurrentId(g) = user_id

\* handle_turn_timeout from the end of asyncio.sleep(turn_time) to the
\* send_message of the elimination
TimeoutFire(t) ==
  /\ tasks[t].kind = "timeout"
  /\ tasks[t].pc = "sleep"
  /\ IF games = 0 \/ ~HasCurrent(heap[games]) \/ ~StillTurn(heap[games], tasks[t].user)
     THEN /\ Commit(heap, games, Cancel(tasks, t), handler)
          /\ UNCHANGED <<inv, ghost>>
     ELSE LET g == heap[games]
              user_id == tasks[t].user
              out == [ g EXCEPT !.eliminated_players = @ \cup {user_id} ]
          IN  /\ Commit([ heap EXCEPT ![games] = reset_streak(out, inv, user_id) ],
                        games,
                        [ tasks EXCEPT ![t].pc = "announce", ![t].game = games ],
                        handler)
              /\ inv' = reset_streak_inv(g, inv, user_id)
              /\ UNCHANGED ghost

\* the database calls of handle_turn_timeout between the elimination and its
\* announcement: get_inventory (in reset_streak, for a player with a
\* streak entry) and update_word_stats (outside practice games)
TimeoutDbCalls(g, user_id) ==
  (IF g.player_streaks[user_id] # NoStreak THEN {"get_inventory"} ELSE {})
    \cup (IF g.is_practice THEN {} ELSE {"update_word_stats"})

\* handle_turn_timeout when one of these calls raises: except Exception logs
\* the error and the task ends
TimeoutFireDbError(t) ==
  /\ tasks[t].kind = "timeout"
  /\ tasks[t].pc = "sleep"
  /\ games # 0
  /\ HasCurrent(heap[games])
  /\ StillTurn(heap[games], tasks[t].user)
  /\ \E failed \in TimeoutDbCalls(heap[games], tasks[t].user) :
       LET g == heap[games]
           user_id == tasks[t].user
           out == [ g EXCEPT !.eliminated_players = @ \cup {user_id} ]
       IN  IF failed = "get_inventory"
           THEN /\ Commit([ heap EXCEPT ![games] = out ], games, Cancel(tasks, t),
                          handler)
                /\ inv' = inv
           ELSE /\ Commit([ heap EXCEPT ![games] = reset_streak(out, inv, user_id) ],
                          games, Cancel(tasks, t), handler)
                /\ inv' = reset_streak_inv(g, inv, user_id)
  /\ UNCHANGED ghost

\* handle_turn_timeout from game.next_turn() to the send_message it reaches
\* next; an empty roster raises ZeroDivisionError, which ends the task
TimeoutAdvanceWithin(t, max_turns) ==
  /\ tasks[t].kind = "timeout"
  /\ tasks[t].pc = "announce"
  /\ heap[tasks[t].game].turn_count < max_turns
  /\ LET gid == tasks[t].game
     IN  IF heap[gid].players = <<>>
         THEN CommitH(heap, games, Cancel(tasks, t), handler, ghost)
         ELSE \E letter \in Letters, chaos_len \in ChaosLengths(heap[gid]) :
                LET g == next_turn(heap[gid], FALSE, letter, chaos_len)
                    s == SkipEliminated(g, Len(g.players), letter, chaos_len)
                IN  IF WinReached(g)
                    THEN IF Winner(g) # 0
                         THEN CommitH([ heap EXCEPT ![gid] = g ], games,
                                      [ tasks EXCEPT ![t].pc = "winner",
                                                     ![t].next = Winner(g) ], handler,
                                      Reported(ghost))
                         ELSE CommitH(ResetHeap(heap, gid, letter), games,
                                      Cancel(ResetTasks(heap, tasks, gid), t), handler,
                                      Ended(ghost))
                    ELSE IF CurrentId(s) \in s.eliminated_players
                         THEN CommitH(ResetHeap([ heap EXCEPT ![gid] = s ], gid, letter),
                                      games, Cancel(ResetTasks(heap, tasks, gid), t),
                                      handler, Ended(Played(ghost, PlayerIds(s))))
                         ELSE CommitH([ heap EXCEPT ![gid] = s ], games,
                                      [ tasks EXCEPT ![t].pc = "prompt",
                                                     ![t].next = CurrentId(s),
                                                     ![t].turn = {s.turn_count} ], handler,
                                      ghost)
  /\ UNCHANGED inv

\* the same in a game of at most MaxTurns turns
TimeoutAdvance(t) == TimeoutAdvanceWithin(t, MaxTurns)

\* handle_turn_timeout after the GAME OVER message: games played, game.reset()
TimeoutWinReset(t) ==
  /\ tasks[t].kind = "timeout"
  /\ tasks[t].pc = "winner"
  /\ \E letter \in Letters :
       CommitH(ResetHeap(heap, tasks[t].game, letter), games,
               Cancel(ResetTasks(heap, tasks, tasks[t].game), t), handler,
               Ended(Played(ghost, PlayerIds(heap[tasks[t].game]))))
  /\ UNCHANGED inv

\* handle_turn_timeout after the turn prompt: the timer of the next player
TimeoutArm(t) ==
  /\ tasks[t].kind = "timeout"
  /\ tasks[t].pc = "prompt"
  /\ LET task == TimeoutTask(games, tasks[t].next, tasks[t].turn)
         h == ClearTask(heap, t)
     IN  Commit([ h EXCEPT ![tasks[t].game].timeout_task =
                              IF task.kind = "none" THEN 0 ELSE t ],
                games, [ tasks EXCEPT ![t] = task ], handler)
  /\ UNCHANGED <<inv, ghost>>

----------------------------------------------------------------------------
(* cpu_turn: the task of the CPU player *)

\* alive_players of cpu_turn
AlivePlayers(g) == { i \in 1..Len(g.players) : g.players[i] \notin g.eliminated_players }

\* cpu_turn from the end of asyncio.sleep(2) to its first send_message; an
\* index out of range raises IndexError, which ends the task
CpuPlay(c) ==
  /\ tasks[c].kind = "cpu"
  /\ tasks[c].pc = "think"
  /\ LET gid == tasks[c].game
         g == heap[gid]
         valid_words == ValidWords(g.current_word_length, g.current_start_letter,
                                   g.used_words)
     IN  IF ~HasCurrent(g) \/ CurrentId(g) # CPU_ID
         THEN Commit(heap, games, Cancel(tasks, c), handler)
         ELSE IF valid_words = {}
              THEN Commit(heap, games, [ tasks EXCEPT ![c].pc = "forfeit_msg" ],
                          handler)
              ELSE \E cpu_word \in valid_words :
                     Commit([ heap EXCEPT ![gid] =
                                increment_streak(
                                  [ g EXCEPT !.used_words = @ \cup {cpu_word} ],
                                  CPU_ID) ],
                            games, [ tasks EXCEPT ![c].pc = "played_msg" ], handler)
  /\ UNCHANGED <<inv, ghost>>

\* cpu_turn from its first send_message to the next one (or to its return)
CpuAdvance(c) ==
  /\ tasks[c].kind = "cpu"
  /\ tasks[c].pc \in {"forfeit_msg", "played_msg"}
  /\ heap[tasks[c].game].turn_count < MaxTurns
  /\ LET gid == tasks[c].game
         g == IF tasks[c].pc = "forfeit_msg"
              THEN [ heap[gid] EXCEPT !.eliminated_players = @ \cup {CPU_ID} ]
              ELSE heap[gid]
         h == [ heap EXCEPT ![gid] = g ]
     IN  \E letter \in Letters, chaos_len \in ChaosLengths(heap[gid]) :
           IF Cardinality(AlivePlayers(g)) <= 1
           THEN IF AlivePlayers(g) # {}
                THEN CommitH(h, games,
                             [ tasks EXCEPT ![c].pc = "win_msg", ![c].next = Winner(g) ],
                             handler, Reported(ghost))
                ELSE CommitH(ResetHeap(h, gid, letter), 0,
                             Cancel(ResetTasks(h, tasks, gid), c), handler,
                             Ended(ghost))
           ELSE LET n == next_turn(g, FALSE, letter, chaos_len)
                IN  CommitH([ heap EXCEPT ![gid] = n ], games,
                            [ tasks EXCEPT ![c].pc = "prompt", ![c].next = CurrentId(n),
                                           ![c].turn = {n.turn_count} ],
                            handler, ghost)
  /\ UNCHANGED inv

\* cpu_turn after the WINS message: games played of a human winner,
\* game.reset() and del games[chat_id]
CpuWinReset(c) ==
  /\ tasks[c].kind = "cpu"
  /\ tasks[c].pc = "win_msg"
  /\ \E letter \in Letters :
       CommitH(ResetHeap(heap, tasks[c].game, letter), 0,
               Cancel(ResetTasks(heap, tasks, tasks[c].game), c), handler,
               Ended(Played(ghost, {tasks[c].next} \ {CPU_ID})))
  /\ UNCHANGED inv

\* cpu_turn after the turn prompt: the timer of the next player and, when
\* that player is the CPU, another cpu_turn
CpuArm(c) ==
  /\ tasks[c].kind = "cpu"
  /\ tasks[c].pc = "prompt"
  /\ tasks[c].next = CPU_ID => FreeTasks(tasks) # {}
  /\ LET task == TimeoutTask(games, tasks[c].next, tasks[c].turn)
         armed == [ tasks EXCEPT ![c] = task ]
     IN  Commit([ heap EXCEPT ![tasks[c].game].timeout_task =
                                 IF task.kind = "none" THEN 0 ELSE c ],
                games,
                IF tasks[c].next = CPU_ID
                THEN [ armed EXCEPT ![NewTaskId(tasks)] = CpuTask(games) ]
                ELSE armed,
                handler)
  /\ UNCHANGED <<inv, ghost>>

----------------------------------------------------------------------------
(* The program *)

\* the handlers and the timeout task that every kind of game shares
Play ==
  \/ \E u \in Users : Stop(u)
  \/ StopReset
  \/ \E u \in Users, text \in Texts : HandleMessage(u, text)
  \/ \E u \in Users, text \in Texts : HandleMessageUnlock(u, text)
  \/ HandleMessageUnlocked
  \/ HandleMessageArm
  \/ \E u \in Users : Forfeit(u)
  \/ ForfeitAdvance
  \/ \E u \in Users : Skip(u)
  \/ \E u \in Users : Rebound(u)
  \/ BoostArm
  \/ \E t \in TaskIds : TimeoutFire(t)
  \/ \E t \in TaskIds : TimeoutAdvance(t)

\* games opened with /lobby: the room's users play each other
Next ==
  \/ \E u \in Starters : Lobby(u)
  \/ \E u \in Users : Join(u)
  \/ \E u \in Users : Begin(u)
  \/ BeginArm
  \/ Play
  \/ ForfeitWinReset
  \/ ForfeitArm
  \/ \E t \in TaskIds : TimeoutWinReset(t)
  \/ \E t \in TaskIds : TimeoutArm(t)

Spec == Init /\ [][Next]_vars

\* games started with /vscpu: one user plays the CPU
NextCpu ==
  \/ \E u \in Starters : Vscpu(u)
  \/ VscpuArm
  \/ Play
  \/ ForfeitWinReset
  \/ \E t \in TaskIds : TimeoutWinReset(t)
  \/ \E c \in TaskIds : CpuPlay(c)
  \/ \E c \in TaskIds : CpuAdvance(c)
  \/ \E c \in TaskIds : CpuWinReset(c)
  \/ \E c \in TaskIds : CpuArm(c)

SpecCpu == Init /\ [][NextCpu]_vars

\* games started with /practice: one user plays alone
NextPractice ==
  \/ \E u \in Starters : Practice(u)
  \/ PracticeArm
  \/ Play

SpecPractice == Init /\ [][NextPractice]_vars

\* lobby games in either game mode
NextChaos ==
  \/ Next
  \/ \E u \in Starters, m \in {"chaos", "nerd"} : Mode(u, m)

SpecChaos == Init /\ [][NextChaos]_vars

\* the start of a lobby game and its timeout task
LobbyGame ==
  \/ \E u \in Starters : Lobby(u)
  \/ \E u \in Users : Join(u)
  \/ \E u \in Users : Begin(u)
  \/ BeginArm
  \/ \E t \in TaskIds : TimeoutFire(t)
  \/ \E t \in TaskIds : TimeoutAdvance(t)
  \/ \E t \in TaskIds : TimeoutWinReset(t)
  \/ \E t \in TaskIds : TimeoutArm(t)

\* lobby games in which the users only type words, accepted or rejected
NextWords ==
  \/ LobbyGame
  \/ \E u \in Users, text \in Texts : HandleMessage(u, text)
  \/ \E u \in Users, text \in Texts : HandleMessageUnlock(u, text)
  \/ HandleMessageUnlocked
  \/ HandleMessageArm
  \/ \E u \in Users, text \in Texts : HandleMessageReject(u, text)
  \/ HandleMessageRejected

SpecWords == Init /\ [][NextWords]_vars

\* lobby games in which the users type words and spend or lack boosts
NextBoosts ==
  \/ LobbyGame
  \/ \E u \in Users, text \in Texts : HandleMessage(u, text)
  \/ HandleMessageArm
  \/ \E u \in Users : Skip(u)
  \/ \E u \in Users : Rebound(u)
  \/ BoostArm
  \/ \E u \in Users, kind \in BoostKinds : BoostReject(u, kind)
  \/ BoostRejected

SpecBoosts == Init /\ [][NextBoosts]_vars

\* lobby games of users who type words and ask for hints
NextHints ==
  \/ LobbyGame
  \/ \E u \in Users, text \in Texts : HandleMessage(u, text)
  \/ HandleMessageArm
  \/ \E u \in Users : Hint(u)
  \/ HintReplied

SpecHints == InitHints /\ [][NextHints]_vars

\* lobby games of users who type words, forfeit or time out, one of them
\* owning a streak protection
NextStreak ==
  \/ LobbyGame
  \/ \E u \in Users, text \in Texts : HandleMessage(u, text)
  \/ HandleMessageArm
  \/ \E u \in Users : Forfeit(u)
  \/ ForfeitAdvance
  \/ ForfeitWinReset
  \/ ForfeitArm

SpecStreak == InitProtected /\ [][NextStreak]_vars

\* lobby games in which the users type words and the database may fail
NextFaulty ==
  \/ LobbyGame
  \/ \E u \in Users, text \in Texts : HandleMessage(u, text)
  \/ HandleMessageArm
  \/ \E u \in Users, text \in Texts : HandleMessageDbError(u, text)
  \/ \E t \in TaskIds : TimeoutFireDbError(t)

SpecFaulty == Init /\ [][NextFaulty]_vars

----------------------------------------------------------------------------
(* Properties *)

\* the step in which handle_message accepts a word (cancel_timeout,
\* used_words.add): the handler leaves idle for one of its two replies
AcceptStep == handler.pc = "idle" /\ handler'.pc \in {"word_unlock", "word_reply"}

\* the step in which timeout task t adds its player to eliminated_players
Eliminates(t) ==
  tasks[t].kind = "timeout" /\ tasks[t].pc = "sleep" /\ tasks'[t].pc = "announce"

\* the step in which cpu task c plays a word
CpuPlays(c) ==
  tasks[c].kind = "cpu" /\ tasks[c].pc = "think" /\ tasks'[c].pc = "played_msg"

\* no coroutine is between two of its awaits: the handler is idle and every
\* task waits in its sleep
Quiet ==
  /\ handler.pc = "idle"
  /\ \A t \in TaskIds : \/ tasks[t].kind = "none"
                        \/ tasks[t].kind = "timeout" /\ tasks[t].pc = "sleep"
                        \/ tasks[t].kind = "cpu" /\ tasks[t].pc = "think"

\* a game is running and waits for the word of the player at the index
TurnPending == games # 0 /\ heap[games].is_running /\ HasCurrent(heap[games]) /\ Quiet

\* C1: a word acceptance and a timeout elimination of the same turn exclude
\* each other: no word of a player is accepted once the timer of the turn
\* has added that player to eliminated_players, and the timer of a turn does
\* not eliminate the player whose word was accepted for that turn
C1_AcceptExcludesTimeout ==
  [][ /\ AcceptStep =>
           ~\E t \in TaskIds : /\ tasks[t].kind = "timeout"
                               /\ tasks[t].pc = "announce"
                               /\ tasks[t].game = games
                               /\ tasks[t].user = handler'.user
      /\ \A t \in TaskIds :
           Eliminates(t) =>
             ~(handler.pc = "word_unlock" /\ handler.user = tasks[t].user) ]_vars

\* C2: a timeout task that wakes after the turn it was armed for is over
\* eliminates nobody: whenever a timer eliminates its player, the game is
\* still in the turn the timer was armed for
C2_StaleTimeoutIsNoOp ==
  [][ \A t \in TaskIds :
        Eliminates(t) => tasks[t].turn = {heap[games].turn_count} ]_vars

\* C3: at most one timeout task is armed at any time
C3_OneArmedTimer == Cardinality(Armed(tasks)) <= 1

\* C4: when a running game waits for a word and at least two players are
\* not eliminated, the player at the index is not eliminated
C4_CurrentPlayerAlive ==
  (TurnPending /\ Cardinality(AlivePlayers(heap[games])) >= 2)
    => CurrentId(heap[games]) \notin heap[games].eliminated_players

\* C5: the step that accepts a word adds exactly one word to used_words, and
\* that word has the length of the challenge, starts with its letter, was
\* not used before and is in the dictionary
C5_AcceptedWordMeetsChallenge ==
  [][ AcceptStep =>
        \E w \in dictionary :
          /\ Len(w) = heap[games].current_word_length
          /\ w[1] = heap[games].current_start_letter
          /\ w \notin heap[games].used_words
          /\ heap'[games].used_words = heap[games].used_words \cup {w} ]_vars

\* a state right after a word was accepted
C5_Witness ==
  /\ handler.pc \in {"word_unlock", "word_reply"}
  /\ heap[handler.game].is_running
  /\ heap[handler.game].used_words # {}

\* C6: every word played, by a user or by the CPU, is new to used_words and
\* is added to it, and used_words never loses a word while the game runs
C6_NoWordTwice ==
  [][ /\ AcceptStep =>
           /\ heap[games].used_words \subseteq heap'[games].used_words
           /\ Cardinality(heap'[games].used_words) =
                Cardinality(heap[games].used_words) + 1
      /\ \A c \in TaskIds :
           CpuPlays(c) =>
             /\ heap[tasks[c].game].used_words \subseteq heap'[tasks[c].game].used_words
             /\ Cardinality(heap'[tasks[c].game].used_words) =
                  Cardinality(heap[tasks[c].game].used_words) + 1
      /\ (games # 0 /\ games' = games /\ heap[games].is_running
            /\ heap'[games].is_running)
           => heap[games].used_words \subseteq heap'[games].used_words ]_vars

\* the CPU has just played in a game where a word had been played before
C6_Witness ==
  \E c \in TaskIds : /\ tasks[c].kind = "cpu"
                     /\ tasks[c].pc = "played_msg"
                     /\ heap[tasks[c].game].is_running
                     /\ Cardinality(heap[tasks[c].game].used_words) >= 2

\* C7: the challenge of a running game that waits for a word has a
\* dictionary word of its length and letter that is not used yet
C7_ChallengeSolvable ==
  TurnPending =>
    ValidWords(heap[games].current_word_length, heap[games].current_start_letter,
               heap[games].used_words) # {}

\* the step of /rebound: an entitlement is spent
ReboundStep == \E u \in Users : inv'[u].rebound < inv[u].rebound

\* the running game moves to a later turn
AdvanceStep ==
  /\ games # 0 /\ games' = games
  /\ heap[games].is_running /\ heap'[games].is_running
  /\ heap'[games].turn_count > heap[games].turn_count

\* C8: /rebound moves to the next player and leaves length and letter of the
\* challenge as they were; every other advance, the one after a rebound
\* included, gives the challenge the length of its turn
C8_ReboundPreservesOnce ==
  [][ /\ ReboundStep =>
           /\ AdvanceStep
           /\ heap'[games].current_word_length = heap[games].current_word_length
           /\ heap'[games].current_start_letter = heap[games].current_start_letter
           /\ heap'[games].current_player_index = NextIndex(heap[games])
      /\ (AdvanceStep /\ ~ReboundStep) =>
           heap'[games].current_word_length =
             NerdLength(heap'[games], heap'[games].turn_count) ]_vars

\* a rebound has kept a challenge whose length is not the one of the new turn
C8_Witness ==
  /\ handler.pc = "boost_reply"
  /\ \E u \in Users : inv[u].rebound < InitBoost /\ inv[u].skip = InitBoost
  /\ heap[handler.game].is_running
  /\ heap[handler.game].current_word_length #
       NerdLength(heap[handler.game], heap[handler.game].turn_count)

\* C9: a game is ended by win detection at most once, its winner is
\* reported at most once, and a game ended by win detection has reported
\* its winner
C9_OneEndOneWinner ==
  /\ ghost.ends <= 1
  /\ ghost.wins <= 1
  /\ ghost.ends = 1 => ghost.wins = 1

\* C10: a running game that waits for a word has fewer than |players| - 1
\* eliminated players, and win detection ends a game only when at least
\* |players| - 1 players are eliminated
C10_OverExactlyAtThreshold ==
  /\ [](TurnPending => ~WinReached(heap[games]))
  /\ [][ (ghost'.ends > ghost.ends /\ games # 0) => WinReached(heap[games]) ]_vars

\* C11: a word of the current player that fails one of the four checks is
\* answered without any change: the game object (index, challenge, used
\* words, streaks, eliminated players), the tasks with the armed timer and
\* the inventories are the same before and after, also when the handler
\* returns, so the player can type another word in the same turn
C11_RejectedWordChangesNothing ==
  [][ /\ \A u \in Users, text \in Texts :
           ( /\ games # 0
             /\ Rejects(heap[games], u, text)
             /\ \/ HandleMessage(u, text)
                \/ HandleMessageUnlock(u, text)
                \/ HandleMessageReject(u, text) )
           => /\ games' = games
              /\ heap' = heap
              /\ tasks' = tasks
              /\ inv' = inv
      /\ (handler.pc = "word_reject" /\ handler'.pc = "idle")
           => /\ games' = games
              /\ heap' = heap
              /\ tasks' = tasks ]_vars

\* a word was rejected in a game in which words have been played
C11_Witness ==
  /\ handler.pc = "word_reject"
  /\ heap[handler.game].is_running
  /\ heap[handler.game].used_words # {}
  /\ Armed(tasks) # {}

\* the step of /skip, /rebound or /hint of user u, accepted or not
BoostCommand(u, kind) ==
  \/ BoostReject(u, kind)
  \/ kind = "skip" /\ Skip(u)
  \/ kind = "rebound" /\ Rebound(u)
  \/ kind = "hint" /\ Hint(u)

\* C12: /skip, /rebound or /hint of the current player who owns none of that
\* boost changes nothing: the game object (index, challenge, eliminated
\* players), the tasks with the armed timer and every inventory are the
\* same before and after, also when the handler returns
C12_NoEntitlementNoChange ==
  [][ /\ \A u \in Users, kind \in BoostKinds :
           ( /\ games # 0
             /\ heap[games].is_running
             /\ HasCurrent(heap[games])
             /\ u = CurrentId(heap[games])
             /\ inv[u][kind] = 0
             /\ BoostCommand(u, kind) )
           => /\ games' = games
              /\ heap' = heap
              /\ tasks' = tasks
              /\ inv' = inv
      /\ (handler.pc = "boost_reject" /\ handler'.pc = "idle")
           => /\ games' = games
              /\ heap' = heap
              /\ tasks' = tasks
              /\ inv' = inv ]_vars

\* a boost was refused to the current player of a running game whose timer
\* is armed, while another user owns that boost
C12_Witness ==
  /\ handler.pc = "boost_reject"
  /\ heap[handler.game].is_running
  /\ Armed(tasks) # {}
  /\ inv[handler.user].skip = 0
  /\ \E o \in Users : inv[o].skip > 0

\* the step of an accepted /skip of user u: a skip entitlement is spent
SkipStep(u) == inv'[u].skip < inv[u].skip

\* C13: an accepted /skip takes exactly one skip of the user and nothing
\* else from the inventories, cancels the armed timer, moves the index to the
\* next player of the same running game, gives the challenge the length of
\* the new turn and leaves eliminated_players and player_streaks as they
\* were; when the handler returns exactly one timer is armed, it belongs to
\* the game and is for the player at the index
C13_SkipAdvancesOnly ==
  [][ /\ \A u \in Users :
           SkipStep(u) =>
             /\ inv' = [ inv EXCEPT ![u].skip = @ - 1 ]
             /\ AdvanceStep
             /\ heap'[games].turn_count = heap[games].turn_count + 1
             /\ heap'[games].current_player_index = NextIndex(heap[games])
             /\ heap'[games].current_word_length =
                  NerdLength(heap'[games], heap'[games].turn_count)
             /\ heap'[games].current_start_letter \in Letters
             /\ heap'[games].eliminated_players = heap[games].eliminated_players
             /\ heap'[games].player_streaks = heap[games].player_streaks
             /\ Armed(tasks') = {}
             /\ handler'.pc = "boost_reply"
             /\ handler'.next = CurrentId(heap'[games])
      /\ (handler.pc = "boost_reply" /\ handler'.pc = "idle") =>
           \E t \in TaskIds :
             /\ Armed(tasks') = {t}
             /\ heap'[games].timeout_task = t
             /\ tasks'[t].user = handler.next
             /\ tasks'[t].user = CurrentId(heap'[games])
             /\ heap'[games].eliminated_players = heap[games].eliminated_players
             /\ heap'[games].player_streaks = heap[games].player_streaks ]_vars

\* a skip was spent in a game with a streak, and the timer of the next
\* player is armed
C13_Witness ==
  /\ handler.pc = "idle"
  /\ games # 0
  /\ heap[games].is_running
  /\ Armed(tasks) # {}
  /\ \E u \in Users : inv[u].skip < InitBoost /\ inv[u].rebound = InitBoost
  /\ \E p \in Users : heap[games].player_streaks[p] > 0

\* the step in which /hint replies with its words
HintStep == handler.pc = "idle" /\ handler'.pc = "hint_reply"

\* C14: /hint of the current player replies with at most HintLimit words,
\* each a dictionary word of the length and with the letter of the challenge
\* that is not in used_words, and it leaves the game object (index,
\* challenge) and the tasks with the armed timer as they were
C14_HintWordsFitAndFresh ==
  [][ HintStep =>
        /\ Cardinality(handler'.words) <= HintLimit
        /\ \A w \in handler'.words :
             /\ w \in dictionary
             /\ Len(w) = heap[games].current_word_length
             /\ StartsWith(w, heap[games].current_start_letter)
             /\ w \notin heap[games].used_words
        /\ games' = games
        /\ heap' = heap
        /\ tasks' = tasks ]_vars

\* the step in which /forfeit of the current player eliminates that player
ForfeitStep == handler.pc = "idle" /\ handler'.pc = "forfeit_reply"

\* C15: the step of a forfeit or of a timeout of the current player p puts p
\* into eliminated_players and leaves p with a streak of 0
C15_EliminatedStreakReset ==
  [][ /\ ForfeitStep =>
           /\ handler'.user \in heap'[games].eliminated_players
           /\ get_streak(heap'[games], handler'.user) = 0
      /\ \A t \in TaskIds :
           Eliminates(t) =>
             /\ tasks[t].user \in heap'[games].eliminated_players
             /\ get_streak(heap'[games], tasks[t].user) = 0 ]_vars

\* the streak and the inventory after p is eliminated: a streak protection
\* of p is spent and keeps the streak, otherwise the streak is 0
StreakAfter(p) ==
  IF inv[p].streak_protect > 0
  THEN /\ get_streak(heap'[games], p) = get_streak(heap[games], p)
       /\ inv' = [ inv EXCEPT ![p].streak_protect = @ - 1 ]
  ELSE /\ get_streak(heap'[games], p) = 0
       /\ inv' = inv

\* C15 amended: the step of a forfeit or of a timeout of the current player
\* p puts p into eliminated_players; p's streak is reset to 0 unless p owns a
\* streak protection, and then one protection is spent and the streak stays
C15_EliminatedStreakResetUnlessProtected ==
  [][ /\ ForfeitStep =>
           /\ handler'.user \in heap'[games].eliminated_players
           /\ StreakAfter(handler'.user)
      /\ \A t \in TaskIds :
           Eliminates(t) =>
             /\ tasks[t].user \in heap'[games].eliminated_players
             /\ StreakAfter(tasks[t].user) ]_vars

\* a player with a streak has just forfeited and a protection kept the
\* streak, after another player was eliminated with a streak of 0
C15_Witness ==
  /\ handler.pc = "forfeit_reply"
  /\ heap[handler.game].is_running
  /\ handler.user \in heap[handler.game].eliminated_players
  /\ heap[handler.game].player_streaks[handler.user] > 0
  /\ \E o \in heap[handler.game].eliminated_players \ {handler.user} :
       heap[handler.game].player_streaks[o] = 0

\* the step in which win detection ends the game: game.reset()
EndStep == ghost'.ends > ghost.ends

\* C16: when win detection ends a game, games_played has been incremented
\* exactly once for every player of its roster, whichever coroutine ends it
C16_GamesPlayedOncePerMember ==
  [][ (EndStep /\ games # 0) =>
        \A p \in PlayerIds(heap[games]) : ghost'.played[p] = 1 ]_vars

\* C17: an exception of the database during an accepted word or a timeout
\* elimination does not stop the game: a running game that waits for a word
\* has an armed timer or a CPU turn pending
C17_DbErrorKeepsGameGoing ==
  TurnPending =>
    \/ Armed(tasks) # {}
    \/ \E c \in TaskIds : tasks[c].kind = "cpu"

\* ---------------------------------------------------------------------
\* next_turn and get_turn_time over the whole length of a game

\* GameState.next_turn called on the running game, by whichever handler or
\* task calls it; the calls of one game are counted up to MaxCalls
TurnCall(preserve_challenge) ==
  /\ handler.pc = "idle"
  /\ games # 0
  /\ heap[games].is_running
  /\ heap[games].turn_count < MaxCalls
  /\ \E letter \in Letters, chaos_len \in ChaosLengths(heap[games]) :
       Commit([ heap EXCEPT ![games] =
                  next_turn(heap[games], preserve_challenge, letter, chaos_len) ],
              games, tasks, handler)
  /\ UNCHANGED <<inv, ghost>>

\* a lobby game of any length: only the calls of next_turn are followed
NextTurns ==
  \/ \E u \in Starters : Lobby(u)
  \/ \E u \in Users : Join(u)
  \/ \E u \in Users : Begin(u)
  \/ BeginArm
  \/ \E preserve_challenge \in BOOLEAN : TurnCall(preserve_challenge)

SpecTurns == Init /\ [][NextTurns]_vars

\* the time the claim gives to a turn at difficulty level d
TurnTimeAt(d) == IF 30 - 5 * d > 5 THEN 30 - 5 * d ELSE 5

\* C18: the time limit of every turn of a game is max(5, 30 - 5 x
\* difficulty_level), the first turn after /begin gets 30 seconds, and no
\* later turn of the same game gets more time than an earlier one
C18_TurnTimeNonIncreasing ==
  [][ /\ (games' # 0 /\ heap'[games'].is_running) =>
           /\ get_turn_time(heap'[games']) = TurnTimeAt(heap'[games'].difficulty_level)
           /\ get_turn_time(heap'[games']) >= 5
           /\ heap'[games'].turn_count = 0 => get_turn_time(heap'[games']) = 30
      /\ (games # 0 /\ games' = games /\ heap[games].is_running /\ heap'[games].is_running) =>
           get_turn_time(heap'[games]) <= get_turn_time(heap[games]) ]_vars

\* a turn whose time is held up by the floor alone
C18_Witness ==
  /\ games # 0 /\ heap[games].is_running
  /\ BaseTime - heap[games].difficulty_level * TimeStep < MinTime
  /\ get_turn_time(heap[games]) = MinTime

\* the step of a next_turn that draws a new challenge in nerd mode
RegenerateStep ==
  /\ TurnCall(FALSE)
  /\ heap[games].game_mode = "nerd"

LobbyRefuse(u) ==
  /\ handler.pc = "idle"
  /\ games # 0
  /\ heap[games].is_running \/ heap[games].is_lobby_open
  /\ Commit(heap, games, tasks,
            [pc |-> "lobby_refused", user |-> u, game |-> games, next |-> 0,
             unlocked |-> FALSE, turn |-> {}])
  /\ UNCHANGED <<inv, ghost>>

\* lobby after that reply_text: return
LobbyRefused ==
  /\ handler.pc = "lobby_refused"
  /\ Commit(heap, games, tasks, Idle)
  /\ UNCHANGED <<inv, ghost>>

\* rooms that see practice games, lobby games and /stop
NextLobby ==
  \/ \E u \in Starters : Practice(u)
  \/ PracticeArm
  \/ \E u \in Starters : Lobby(u)
  \/ \E u \in Users : LobbyRefuse(u)
  \/ LobbyRefused
  \/ \E u \in Users : Join(u)
  \/ \E u \in Users : JoinRefuse(u)
  \/ JoinRefused
  \/ \E u \in Users : Begin(u)
  \/ BeginArm
  \/ \E u \in Users : Stop(u)
  \/ StopReset
  \/ \E u \in Users, text \in Texts : HandleMessage(u, text)
  \/ HandleMessageArm

SpecLobby == Init /\ [][NextLobby]_vars

\* the game mode /lobby finds in the room: a setting made with /mode before
\* the lobby is opened
ModeOfRoom == IF games = 0 THEN GameStateInit.game_mode ELSE heap[games].game_mode

\* C20: /lobby while a lobby is open or a game is running leaves the game
\* (roster, phase, owner, timer) unchanged; otherwise every field is reset,
\* the lobby is open and the roster is exactly the issuer
C20_LobbyResetsOrRefuses ==
  [][ /\ ((\E u \in Users : LobbyRefuse(u)) \/ handler.pc = "lobby_refused") =>
           games' = games /\ heap' = heap /\ tasks' = tasks
      /\ \A u \in Users :
           Lobby(u) =>
             \E letter \in Letters :
               heap'[games'] = [ GameStateInit EXCEPT !.is_lobby_open = TRUE,
                                                      !.group_owner = u,
                                                      !.players = <<u>>,
                                                      !.current_start_letter = letter,
                                                      !.game_mode = ModeOfRoom ] ]_vars

\* ---------------------------------------------------------------------
\* /join and /begin in every phase of the room

\* the step of /join of user u, accepted or not
JoinCommand(u) == Join(u) \/ JoinRefuse(u)

\* join refuses user u: no lobby is open or u is in the roster
JoinRefusal(u) ==
  IF games = 0 THEN TRUE
  ELSE ~heap[games].is_lobby_open \/ u \in PlayerIds(heap[games])

\* the ids of a roster are pairwise distinct
DistinctIds(g) == Cardinality(PlayerIds(g)) = Len(g.players)

\* C21: /join changes the roster only while the lobby is open and never adds
\* an id the roster has: the ids of every roster are pairwise distinct, an
\* accepted join appends the one new id, and a join of a member or a join
\* while the game runs or is over leaves every game as it was
C21_JoinOnlyInLobbyNoDuplicates ==
  [][ /\ \A g \in GameIds : DistinctIds(heap'[g])
      /\ \A u \in Users :
           /\ (JoinCommand(u) /\ JoinRefusal(u))
                => games' = games /\ heap' = heap /\ tasks' = tasks
           /\ (JoinCommand(u) /\ heap' # heap)
                => /\ heap[games].is_lobby_open
                   /\ u \notin PlayerIds(heap[games])
                   /\ heap'[games].players = Append(heap[games].players, u)
      /\ (handler.pc = "join_refused" /\ handler'.pc = "idle")
           => games' = games /\ heap' = heap /\ tasks' = tasks ]_vars

\* /join of a member of the roster was refused while the game runs
C21_Witness ==
  /\ handler.pc = "join_refused"
  /\ games # 0
  /\ heap[games].is_running
  /\ Len(heap[games].players) >= 2
  /\ handler.user \in PlayerIds(heap[games])

\* rooms that see /vscpu games, /stop and lobby games one after the other;
\* no timer expires
NextRoom ==
  \/ \E u \in Starters : Vscpu(u)
  \/ VscpuArm
  \/ \E u \in Users, text \in Texts : HandleMessage(u, text)
  \/ HandleMessageArm
  \/ \E c \in TaskIds : CpuPlay(c)
  \/ \E c \in TaskIds : CpuAdvance(c)
  \/ \E c \in TaskIds : CpuWinReset(c)
  \/ \E c \in TaskIds : CpuArm(c)
  \/ \E u \in Users : Stop(u)
  \/ StopReset
  \/ \E u \in Starters : Lobby(u)
  \/ \E u \in Users : Join(u)
  \/ \E u \in Users : Begin(u)
  \/ \E u \in Users : BeginRefuse(u)
  \/ BeginRefused
  \/ BeginArm

SpecRoom == Init /\ [][NextRoom]_vars

\* the step of /begin of user u, accepted or not
BeginCommand(u) == Begin(u) \/ BeginRefuse(u)

\* the registry, the registered game and the tasks are as they were
SameRoom ==
  /\ games' = games
  /\ games # 0 => heap'[games] = heap[games]
  /\ tasks' = tasks

\* the step in which /begin starts the game
BeginStep == handler.pc = "idle" /\ handler'.pc = "begin_reply"

\* C22: /begin starts a game only from an open lobby with at least 2
\* players and changes nothing otherwise; when a successful /begin has
\* returned, the index is 0, used_words and eliminated_players are empty and
\* exactly one timer is armed, for the first player of the roster
C22_BeginOnlyFromLobby ==
  [][ /\ \A u \in Users :
           (BeginCommand(u) /\ (IF games = 0 THEN TRUE ELSE BeginRefusal))
             => SameRoom
      /\ (handler.pc = "begin_refused" /\ handler'.pc = "idle") => SameRoom
      /\ BeginStep =>
           /\ heap[games].is_lobby_open
           /\ Len(heap[games].players) >= 2
           /\ heap'[games'].is_running
           /\ ~heap'[games'].is_lobby_open
           /\ heap'[games'].players = heap[games].players
      /\ (handler.pc = "begin_reply" /\ handler'.pc = "idle") =>
           /\ heap'[games'].is_running
           /\ heap'[games'].current_player_index = 0
           /\ heap'[games'].used_words = {}
           /\ heap'[games'].eliminated_players = {}
           /\ \E t \in TaskIds :
                /\ Armed(tasks') = {t}
                /\ tasks'[t].user = heap'[games'].players[1]
                /\ heap'[games'].timeout_task = t ]_vars

\* /stop has reset the game of the room and no lobby was opened and no game
\* started since
StoppedRoom ==
  /\ ghost.stopped
  /\ games # 0 => ~heap[games].is_lobby_open

\* C23: after an authorized /stop the game is neither running nor in lobby,
\* no timeout task is left, armed or at work, and none is armed for the
\* stopped game afterwards
C23_StopLeavesNoTimer ==
  StoppedRoom =>
    /\ games # 0 => ~heap[games].is_running
    /\ \A t \in TaskIds : tasks[t].kind # "timeout"

\* C24: a word is validated in the order length, first letter, used_words,
\* dictionary, and the reply of a rejection names the first check that
\* fails: a used word of the wrong length is refused for its length
C24_FirstFailingCheckReported ==
  [][ \A u \in Users, text \in Texts :
        HandleMessageReject(u, text) =>
          LET g == heap[games]
              word == NormalWord(text)
              length_ok == Len(word) = g.current_word_length
              letter_ok == word[1] = g.current_start_letter
              unused == word \notin g.used_words
              known == word \in dictionary
          IN  /\ ~length_ok => handler'.reason = "length"
              /\ (length_ok /\ ~letter_ok) => handler'.reason = "letter"
              /\ (length_ok /\ letter_ok /\ ~unused) => handler'.reason = "used"
              /\ (length_ok /\ letter_ok /\ unused /\ ~known)
                   => handler'.reason = "lexicon"
              /\ handler'.reason # "none" ]_vars

\* a used word of the wrong length was refused
C24_Witness ==
  /\ handler.pc = "word_reject"
  /\ handler.word \in heap[games].used_words
  /\ Len(handler.word) # heap[games].current_word_length
  /\ handler.reason = "length"

\* ---------------------------------------------------------------------
\* cleanup_old_games: the sweep of the registry

\* a sweep that does not look at the phase of the game
Sweep_any_phase(old) ==
  /\ games # 0
  /\ Commit(heap, IF old THEN 0 ELSE games, tasks, handler)
  /\ UNCHANGED <<inv, ghost>>

\* one pass of cleanup_old_games after its sleep; old is the answer of
\* current_time - game.last_activity_time > GAME_CLEANUP_INTERVAL.
\* main() creates no task for this coroutine: the pass is followed here as
\* it would run once started
Sweep(old) ==
  /\ games # 0
  /\ Commit(heap,
            IF ~heap[games].is_running /\ ~heap[games].is_lobby_open /\ old
            THEN 0 ELSE games,
            tasks, handler)
  /\ UNCHANGED <<inv, ghost>>

\* lobby games, /stop and the sweep
NextSweep ==
  \/ LobbyGame
  \/ \E u \in Users, text \in Texts : HandleMessage(u, text)
  \/ HandleMessageArm
  \/ \E u \in Users : Stop(u)
  \/ StopReset
  \/ \E old \in BOOLEAN : Sweep(old)

SpecSweep == Init /\ [][NextSweep]_vars

\* C25: the sweep removes a game from the registry only when the game is
\* neither running nor in lobby; a game that runs or whose lobby is open
\* stays registered and unchanged, whatever its age
C25_SweepSparesLiveGames ==
  [][ \A old \in BOOLEAN :
        Sweep(old) =>
          /\ (heap[games].is_running \/ heap[games].is_lobby_open)
               => games' = games /\ heap' = heap /\ tasks' = tasks
          /\ games' # games
               => ~heap[games].is_running /\ ~heap[games].is_lobby_open ]_vars

\* the sweep has removed the game that /stop had reset
C25_Witness ==
  /\ games = 0
  /\ ghost.stopped

-----------------------------------------------------------------------------
(* /authority and the booster limits *)

\* the values "null", "0" and "1".."AuthorityLimit" of an argument key=value
AuthorityValues == {Disabled, Unlimited} \cup 1..AuthorityLimit

\* authority_command with one argument kind=value, up to its reply_text
Authority(u, kind, value) ==
  /\ handler.pc = "idle"
  /\ games # 0
  /\ heap[games].is_lobby_open \/ heap[games].is_running
  /\ heap[games].group_owner = u
  /\ CommitH([ heap EXCEPT ![games].booster_limits[kind] = value ], games, tasks,
             [pc |-> "authority_reply", user |-> u, game |-> games, next |-> 0,
              unlocked |-> FALSE, turn |-> {}],
             Limited(ghost, kind, heap[games].wraps))
  /\ UNCHANGED inv

\* authority_command after its reply_text: return
AuthorityReplied ==
  /\ handler.pc = "authority_reply"
  /\ Commit(heap, games, tasks, Idle)
  /\ UNCHANGED <<inv, ghost>>

\* skip_boost_command and rebound_boost_command, the accepted use counted in
\* the round it is made in
SkipCounted(u) ==
  BoostWith(u, "skip", FALSE, Used(ghost, "skip", heap[games].wraps))
ReboundCounted(u) ==
  BoostWith(u, "rebound", TRUE, Used(ghost, "rebound", heap[games].wraps))

\* every user has bought skips and rebounds
InitLimits ==
  /\ games = 0
  /\ heap = [ g \in GameIds |-> GameStateInit ]
  /\ tasks = [ t \in TaskIds |-> NoTask ]
  /\ handler = Idle
  /\ inv = [ u \in Users |-> [hint |-> 0, skip |-> InitBoost,
                               rebound |-> InitBoost, streak_protect |-> 0] ]
  /\ ghost = NoHistory

\* a lobby game whose owner sets booster limits and whose players spend boosts
NextLimits ==
  \/ \E u \in Starters : Lobby(u)
  \/ \E u \in Users : Join(u)
  \/ \E u \in Users, kind \in BoostKinds, value \in AuthorityValues :
       Authority(u, kind, value)
  \/ AuthorityReplied
  \/ \E u \in Users : Begin(u)
  \/ BeginArm
  \/ \E u \in Users, text \in Texts : HandleMessage(u, text)
  \/ HandleMessageArm
  \/ \E u \in Users : SkipCounted(u)
  \/ \E u \in Users : ReboundCounted(u)
  \/ BoostArm
  \/ \E u \in Users, kind \in BoostKinds : BoostReject(u, kind)
  \/ BoostRejected

SpecLimits == InitLimits /\ [][NextLimits]_vars

\* C26: after the lobby owner sets a limit of N >= 1 for a booster with
\* /authority, at most N uses of that booster are accepted in a round of the
\* game
C26_LimitBoundsUsesPerRound ==
  games # 0 /\ heap[games].is_running =>
    \A kind \in BoostKinds :
      heap[games].booster_limits[kind] >= 1 =>
        ghost.uses[kind].count <= heap[games].booster_limits[kind]

-----------------------------------------------------------------------------
(* /difficulty *)

\* GameState.set_difficulty with one of the three names
set_difficulty(g, difficulty) ==
  [ g EXCEPT !.difficulty = difficulty,
             !.current_word_length =
                IF ~g.is_running THEN DIFFICULTY_MODES[difficulty].start_length ELSE @ ]

\* difficulty with an argument easy, medium or hard, up to its reply_text; a
\* room without a game gets a new GameState
Difficulty(u, difficulty) ==
  /\ handler.pc = "idle"
  /\ games # 0 \/ FreeGames # {}
  /\ LET gid == IF games = 0 THEN NewGameId ELSE games
     IN  /\ ~heap[gid].is_running
         /\ Commit([ heap EXCEPT ![gid] = set_difficulty(heap[gid], difficulty) ],
                   gid, tasks,
                   [pc |-> "difficulty_reply", user |-> u, game |-> gid, next |-> 0,
                    unlocked |-> FALSE, turn |-> {}])
  /\ UNCHANGED <<inv, ghost>>

\* difficulty after its reply_text: return
DifficultyReplied ==
  /\ handler.pc = "difficulty_reply"
  /\ Commit(heap, games, tasks, Idle)
  /\ UNCHANGED <<inv, ghost>>

\* lobby games whose difficulty the users choose before they begin
NextDifficulty ==
  \/ \E u \in Starters : Lobby(u)
  \/ \E u \in Users : Join(u)
  \/ \E u \in Users, difficulty \in Difficulties : Difficulty(u, difficulty)
  \/ DifficultyReplied
  \/ \E u \in Users : Begin(u)
  \/ BeginArm
  \/ \E u \in Users, text \in Texts : HandleMessage(u, text)
  \/ HandleMessageArm

SpecDifficulty == Init /\ [][NextDifficulty]_vars

\* C27: the word length a running game requires lies within the bounds of
\* the difficulty chosen with /difficulty: easy 3..10, medium 3..15,
\* hard 4..20
C27_DifficultyBoundsLength ==
  games # 0 /\ heap[games].is_running =>
    /\ heap[games].current_word_length >= DIFFICULTY_MODES[heap[games].difficulty].start_length
    /\ heap[games].current_word_length <= DIFFICULTY_MODES[heap[games].difficulty].max_length

\* ---------------------------------------------------------------------
\* the difficulty level and the rounds

\* a call of next_turn in a game in nerd mode
NerdTurnStep ==
  /\ \E preserve_challenge \in BOOLEAN : TurnCall(preserve_challenge)
  /\ heap[games].game_mode = "nerd"

StreakCounted(u) ==
  /\ get_streak(heap'[games], u) = get_streak(heap[games], u) + 1
  /\ \A v \in AllIds \ {u} :
       heap'[games].player_streaks[v] = heap[games].player_streaks[v]

\* the turn goes to the player who follows the current one in the roster
TurnPassed ==
  /\ heap'[games].players = heap[games].players
  /\ heap'[games].current_player_index = NextIndex(heap[games])
  /\ handler'.next = heap[games].players[NextIndex(heap[games]) + 1]

\* C29: an accepted word raises the streak of the player who typed it by
\* exactly 1, leaves every other streak as it is, and passes the turn to the
\* next player of the roster; when a title is unlocked the handler does the
\* first on its way to the unlock message and the second after it
C29_AcceptedWordCountsAndPasses ==
  [][ /\ \A u \in Users, text \in Texts :
           /\ HandleMessage(u, text) => StreakCounted(u) /\ TurnPassed
           /\ HandleMessageUnlock(u, text) =>
                StreakCounted(u) /\ handler'.pc = "word_unlock"
      /\ HandleMessageUnlocked =>
           /\ heap'[games].player_streaks = heap[games].player_streaks
           /\ TurnPassed ]_vars

\* roster <<1, 2>> after begin: the first word of user 1 is accepted, the
\* streak of user 1 is 1 and user 2 is the current player
C29_Witness ==
  /\ handler.pc = "word_reply"
  /\ games # 0 /\ heap[games].is_running
  /\ heap[games].players = <<1, 2>>
  /\ heap[games].turn_count = 1
  /\ heap[games].player_streaks[1] = 1
  /\ heap[games].player_streaks[2] = 0
  /\ CurrentId(heap[games]) = 2
  /\ handler.next = 2

\* ---------------------------------------------------------------------
\* the order of the elimination announcement, the turn prompt and the timer

\* handle_turn_timeout t has eliminated its player and its send_message of
\* the announcement has not returned
Announcing(t) == tasks[t].kind = "timeout" /\ tasks[t].pc = "announce"

\* the step sends a message that names the next player and the challenge
PromptSent ==
  \/ /\ handler'.pc \in {"begin_reply", "word_reply", "boost_reply", "forfeit_prompt"}
     /\ handler'.pc # handler.pc
  \/ \E t \in TaskIds :
       tasks'[t].kind = "timeout" /\ tasks'[t].pc = "prompt" /\ tasks[t].pc # "prompt"

\* the step creates a task that sleeps for the time of a turn
TimerArmed ==
  \E t \in TaskIds :
    /\ tasks'[t].kind = "timeout" /\ tasks'[t].pc = "sleep"
    /\ ~(tasks[t].kind = "timeout" /\ tasks[t].pc = "sleep")

\* C30: while the announcement of an elimination by timeout or forfeit is
\* under way, the only turn prompt sent is the one the eliminating task or
\* handler sends after its announcement, and no timer is armed: no prompt and
\* no timer of the following turn comes before the announcement
C30_AnnouncementBeforePrompt ==
  [][ /\ \A t \in TaskIds :
           Announcing(t) =>
             /\ PromptSent => tasks'[t].kind = "timeout" /\ tasks'[t].pc = "prompt"
             /\ ~TimerArmed
      /\ handler.pc = "forfeit_reply" =>
           /\ PromptSent => handler'.pc = "forfeit_prompt"
           /\ ~TimerArmed ]_vars

-----------------------------------------------------------------------------
(* the scan for the next alive player after an elimination *)

\* a lobby game of n players, in its second round, in which the players of
\* `out` are eliminated and the one at index idx has just been eliminated
ScanGame(n, idx, out, letter) ==
  [ GameStateInit EXCEPT
      !.is_running = TRUE, !.players = [ i \in 1..n |-> i ],
      !.group_owner = 1,
      !.current_player_index = idx, !.turn_count = n + idx, !.wraps = 1,
      !.difficulty_level = (n + idx) \div DifficultyEvery,
      !.current_start_letter = letter,
      !.current_word_length = Min(NerdStartLength + 1, NerdMaxLength),
      !.player_streaks = [ u \in AllIds |-> IF u \in 1..n THEN 0 ELSE NoStreak ],
      !.eliminated_players = out ]

\* the rosters, indices and eliminated sets of such games: every player had a
\* turn in the first round, and the game went on as long as two were alive
ScanCases ==
  { c \in [n : 2..ScanRoster, idx : 0..(ScanRoster - 1), out : SUBSET (1..ScanRoster)] :
      /\ c.idx < c.n
      /\ c.out \subseteq 1..c.n
      /\ (c.idx + 1) \in c.out
      /\ Cardinality(c.out) <= c.n - 1 }

\* the room right after an elimination: handle_turn_timeout waits in the
\* send_message of its announcement, or forfeit_command in its reply_text
InitScan ==
  /\ games = 1
  /\ inv = Inventory(1, 0, 0)
  /\ ghost = NoHistory
  /\ \E c \in ScanCases, letter \in Letters, by_timeout \in BOOLEAN :
       LET g == ScanGame(c.n, c.idx, c.out, letter)
       IN  IF by_timeout
           THEN /\ heap = [ o \in GameIds |->
                              IF o = 1 THEN [ g EXCEPT !.timeout_task = 1 ]
                              ELSE GameStateInit ]
                /\ tasks = [ t \in TaskIds |->
                               IF t = 1
                               THEN [kind |-> "timeout", pc |-> "announce",
                                     user |-> c.idx + 1, game |-> 1, next |-> 0,
                                     turn |-> {g.turn_count}]
                               ELSE NoTask ]
                /\ handler = Idle
           ELSE /\ heap = [ o \in GameIds |-> IF o = 1 THEN g ELSE GameStateInit ]
                /\ tasks = [ t \in TaskIds |-> NoTask ]
                /\ handler = [pc |-> "forfeit_reply", user |-> c.idx + 1, game |-> 1,
                               next |-> 0, unlocked |-> FALSE, turn |-> {}]

\* what handle_turn_timeout and forfeit_command do after the announcement
NextScan ==
  \/ \E t \in TaskIds : TimeoutAdvanceWithin(t, MaxCalls)
  \/ \E t \in TaskIds : TimeoutWinReset(t)
  \/ \E t \in TaskIds : TimeoutArm(t)
  \/ ForfeitAdvance
  \/ ForfeitWinReset
  \/ ForfeitArm

SpecScan == InitScan /\ [][NextScan]_vars

\* the game of the step goes on: two players or more are alive
GoesOn(gid) == heap[gid].players # <<>> /\ ~WinReached(heap[gid])

\* the player the coroutine has chosen is alive and is the current player of
\* the running game, and no game was reset
ScanEndsOn(gid, next) ==
  /\ heap'[gid].is_running
  /\ next = CurrentId(heap'[gid])
  /\ next \notin heap'[gid].eliminated_players
  /\ heap'[gid].players = heap[gid].players
  /\ ghost' = ghost

\* C31: after an elimination that leaves two players or more alive, the scan
\* of handle_turn_timeout and the loop of forfeit_command end on a player who
\* is not eliminated, the prompt names that player and the timer is armed for
\* that player; the reset of "No valid players remaining" is not reached
C31_ScanEndsOnAlivePlayer ==
  [][ /\ \A t \in TaskIds :
           /\ TimeoutAdvanceWithin(t, MaxCalls) /\ GoesOn(tasks[t].game) =>
                /\ tasks'[t].kind = "timeout" /\ tasks'[t].pc = "prompt"
                /\ ScanEndsOn(tasks[t].game, tasks'[t].next)
           /\ TimeoutArm(t) =>
                /\ tasks'[t].kind = "timeout" /\ tasks'[t].pc = "sleep"
                /\ tasks'[t].user = tasks[t].next
                /\ tasks'[t].user \notin heap'[games'].eliminated_players
      /\ ForfeitAdvance /\ GoesOn(handler.game) =>
           /\ handler'.pc = "forfeit_prompt"
           /\ ScanEndsOn(handler.game, handler'.next)
      /\ ForfeitArm =>
           \E t \in TaskIds :
             /\ tasks[t].kind = "none"
             /\ tasks'[t].kind = "timeout" /\ tasks'[t].pc = "sleep"
             /\ tasks'[t].user = handler.next
             /\ tasks'[t].user \notin heap'[games'].eliminated_players ]_vars

\* handle_turn_timeout has chosen the player of its prompt by passing over
\* an eliminated one: the chosen player is alive and does not follow the
\* player who timed out in the roster
C31_Witness ==
  /\ games # 0 /\ heap[games].is_running
  /\ \E t \in TaskIds :
       /\ tasks[t].kind = "timeout" /\ tasks[t].pc = "prompt"
       /\ tasks[t].next = CurrentId(heap[games])
       /\ tasks[t].next \notin heap[games].eliminated_players
       /\ tasks[t].user \in heap[games].eliminated_players
       /\ tasks[t].next # heap[games].players[(tasks[t].user % Len(heap[games].players)) + 1]

-----------------------------------------------------------------------------
(* commands and words of a user who is not the current player *)

\* the inputs a user sends out of turn: the four commands that answer "It's
\* not your turn!" and a message, which handle_message drops without answer
OutOfTurnInputs == {"forfeit", "skip", "rebound", "hint", "word"}

\* an out-of-turn handler that eliminates the sender
OutOfTurn_eliminating(u, input) ==
  /\ handler.pc = "idle"
  /\ games # 0
  /\ heap[games].is_running
  /\ HasCurrent(heap[games])
  /\ u # CurrentId(heap[games])
  /\ Commit([ heap EXCEPT ![games].eliminated_players = @ \cup {u} ], games, tasks,
            IF input = "word" THEN Idle
            ELSE [pc |-> "turn_refused", user |-> u, game |-> games, next |-> 0,
                  unlocked |-> FALSE, turn |-> {}])
  /\ UNCHANGED <<inv, ghost>>

\* forfeit_command, skip_boost_command, rebound_boost_command and
\* hint_boost_command up to the reply_text of "It's not your turn!", and
\* handle_message up to its return for a sender who is not the current player
OutOfTurn(u, input) ==
  /\ handler.pc = "idle"
  /\ games # 0
  /\ heap[games].is_running
  /\ HasCurrent(heap[games])
  /\ u # CurrentId(heap[games])
  /\ Commit(heap, games, tasks,
            IF input = "word" THEN Idle
            ELSE [pc |-> "turn_refused", user |-> u, game |-> games, next |-> 0,
                  unlocked |-> FALSE, turn |-> {}])
  /\ UNCHANGED <<inv, ghost>>

\* the four commands after the reply_text of "It's not your turn!": return
OutOfTurnReplied ==
  /\ handler.pc = "turn_refused"
  /\ Commit(heap, games, tasks, Idle)
  /\ UNCHANGED <<inv, ghost>>

\* lobby games in which users also act out of turn
NextOutOfTurn ==
  \/ LobbyGame
  \/ \E u \in Users, text \in Texts : HandleMessage(u, text)
  \/ HandleMessageArm
  \/ \E u \in Users, input \in OutOfTurnInputs : OutOfTurn(u, input)
  \/ OutOfTurnReplied

SpecOutOfTurn == InitHints /\ [][NextOutOfTurn]_vars

\* C32: a forfeit, skip, rebound, hint or word of a user who is not the
\* current player changes nothing: the game (eliminated players, turn index,
\* challenge, used words, streaks), the tasks with the armed timer and the
\* inventories are the same before and after the handler
C32_OutOfTurnChangesNothing ==
  [][ (\/ \E u \in Users, input \in OutOfTurnInputs : OutOfTurn(u, input)
       \/ OutOfTurnReplied)
      => SameRoom /\ inv' = inv /\ ghost' = ghost ]_vars

\* a player of the roster is told it is not their turn while the timer of
\* the current player sleeps
C32_Witness ==
  /\ handler.pc = "turn_refused"
  /\ games # 0 /\ heap[games].is_running
  /\ handler.user \in PlayerIds(heap[games])
  /\ handler.user # CurrentId(heap[games])
  /\ heap[games].timeout_task # 0
  /\ tasks[heap[games].timeout_task].pc = "sleep"
  /\ tasks[heap[games].timeout_task].user = CurrentId(heap[games])

-----------------------------------------------------------------------------
(* the phases of a game *)

\* a room in which games of the three kinds are opened, started, stopped and
\* lost by timeout
NextPhases ==
  \/ \E u \in Starters : Lobby(u)
  \/ \E u \in Users : Join(u)
  \/ \E u \in Users : Begin(u)
  \/ BeginArm
  \/ \E u \in Starters : Vscpu(u)
  \/ VscpuArm
  \/ \E u \in Starters : Practice(u)
  \/ PracticeArm
  \/ \E u \in Users : Stop(u)
  \/ StopReset
  \/ \E t \in TaskIds : TimeoutFire(t)
  \/ \E t \in TaskIds : TimeoutAdvance(t)
  \/ \E t \in TaskIds : TimeoutWinReset(t)
  \/ \E t \in TaskIds : TimeoutArm(t)

SpecPhases == Init /\ [][NextPhases]_vars

\* C33: no GameState has is_running and is_lobby_open both true
C33_OnePhase ==
  \A g \in GameIds : ~(heap[g].is_running /\ heap[g].is_lobby_open)

\* a game that went from the lobby to running: /begin has closed the lobby
\* of a roster of two or more and the game runs
C33_Witness ==
  /\ games # 0
  /\ handler.pc = "begin_reply"
  /\ heap[games].is_running
  /\ ~heap[games].is_lobby_open
  /\ Len(heap[games].players) >= 2
  /\ ~heap[games].is_cpu_game

-----------------------------------------------------------------------------
(* the turn index and the turn count *)

\* games of the three kinds in which words are played and timers expire; the
\* CPU does not answer
NextIndexed ==
  \/ \E u \in Starters : Lobby(u)
  \/ \E u \in Users : Join(u)
  \/ \E u \in Users : Begin(u)
  \/ BeginArm
  \/ \E u \in Starters : Vscpu(u)
  \/ VscpuArm
  \/ \E u \in Starters : Practice(u)
  \/ PracticeArm
  \/ \E u \in Users, text \in Texts : HandleMessage(u, text)
  \/ HandleMessageArm
  \/ \E t \in TaskIds : TimeoutFire(t)
  \/ \E t \in TaskIds : TimeoutAdvance(t)
  \/ \E t \in TaskIds : TimeoutWinReset(t)
  \/ \E t \in TaskIds : TimeoutArm(t)

SpecIndexed == Init /\ [][NextIndexed]_vars

\* C34: in a running game current_player_index is an index of the roster and
\* is turn_count modulo the size of the roster
C34_IndexIsTurnModRoster ==
  \A g \in GameIds :
    heap[g].is_running =>
      /\ Len(heap[g].players) > 0
      /\ heap[g].current_player_index \in 0..(Len(heap[g].players) - 1)
      /\ heap[g].current_player_index = heap[g].turn_count % Len(heap[g].players)

\* a running game of two players or more in which the index has come back
\* to 0 after a full round
C34_Witness ==
  /\ games # 0 /\ heap[games].is_running
  /\ Len(heap[games].players) >= 2
  /\ heap[games].turn_count = Len(heap[games].players)
  /\ heap[games].current_player_index = 0

\* ---------------------------------------------------------------------
\* timers and games that do not run

\* C35: while the room has no running game (none registered, a fresh one, a
\* lobby, or a game that was stopped or is over) no timeout task is armed
C35_NoTimerUnlessRunning ==
  (games = 0 \/ ~heap[games].is_running) => Armed(tasks) = {}

-----------------------------------------------------------------------------
(* a game whose players stay silent *)

\* the users open a lobby, join and begin; after that only the timers act
NextSilent == LobbyGame

\* the event loop runs every coroutine that can go on: the reply of /begin
\* returns, asyncio.sleep(turn_time) ends and every send_message returns
SilentFairness ==
  /\ WF_vars(BeginArm)
  /\ WF_vars(\E t \in TaskIds : TimeoutFire(t))
  /\ WF_vars(\E t \in TaskIds : TimeoutAdvance(t))
  /\ WF_vars(\E t \in TaskIds : TimeoutWinReset(t))
  /\ WF_vars(\E t \in TaskIds : TimeoutArm(t))

SpecSilent == Init /\ [][NextSilent]_vars /\ SilentFairness

\* the room has a running game
Running == games # 0 /\ heap[games].is_running

\* C36: a game that has begun and gets no input leaves Running with no timer
\* armed, and while it runs with its timer armed fewer than |players| - 1
\* players are eliminated: the expiry that eliminates player number
\* |players| - 1 ends the game
C36_SilentGameEnds ==
  /\ Running ~> (~Running /\ Armed(tasks) = {})
  /\ [](Running /\ Armed(tasks) # {} =>
          Cardinality(heap[games].eliminated_players) < Len(heap[games].players) - 1)

\* the game of three silent players is over: two timers expired, the winner
\* was reported and the game was reset with no timer left
C36_Witness ==
  /\ ghost.ends = 1 /\ ghost.wins = 1
  /\ \A u \in Users : ghost.played[u] = 1
  /\ ~Running
  /\ Armed(tasks) = {}

\* ---------------------------------------------------------------------
\* the elimination of the CPU player

\* the step adds the CPU player to eliminated_players of game object g
CpuEliminated(g) ==
  /\ heap[g].is_cpu_game /\ heap'[g].is_cpu_game
  /\ heap'[g].players = heap[g].players
  /\ CPU_ID \notin heap[g].eliminated_players
  /\ CPU_ID \in heap'[g].eliminated_players

\* C37: in a game against the CPU the CPU player is eliminated only when no
\* dictionary word of the length and the letter of the challenge is unused
C37_CpuEliminatedOnlyWithoutWord ==
  [][ \A g \in GameIds :
        CpuEliminated(g) =>
          ValidWords(heap[g].current_word_length, heap[g].current_start_letter,
                     heap[g].used_words) = {} ]_vars

\* ---------------------------------------------------------------------
\* the counts of the inventory

\* one user owns boosts of every kind and streak protections
InitEntitled == InitWith(InitBoost, InitBoost)

\* lobby games of users who ask for hints, skip, rebound, forfeit or let the
\* timer run out
NextEntitled ==
  \/ LobbyGame
  \/ \E u \in Users : Hint(u)
  \/ HintReplied
  \/ \E u \in Users : Skip(u)
  \/ \E u \in Users : Rebound(u)
  \/ BoostArm
  \/ \E u \in Users, kind \in BoostKinds : BoostReject(u, kind)
  \/ BoostRejected
  \/ \E u \in Users : Forfeit(u)
  \/ ForfeitAdvance
  \/ ForfeitWinReset
  \/ ForfeitArm

SpecEntitled == InitEntitled /\ [][NextEntitled]_vars

InventoryKinds == {"hint", "skip", "rebound", "streak_protect"}

\* the count is left alone, or it was positive and one is taken
TakenOneOrNone(u, kind) ==
  \/ inv'[u][kind] = inv[u][kind]
  \/ inv[u][kind] > 0 /\ inv'[u][kind] = inv[u][kind] - 1

\* C38: no count of hints, skips, rebounds or streak protections is ever
\* negative, and a step of a handler or of a timer takes at most one of a
\* count, and only of a count that is greater than 0 before the step
C38_CountsNeverNegative ==
  /\ [](\A u \in Users, kind \in InventoryKinds : inv[u][kind] >= 0)
  /\ [][\A u \in Users, kind \in InventoryKinds : TakenOneOrNone(u, kind)]_vars

\* a user has spent a hint, a skip, a rebound and a streak protection
C38_Witness ==
  \A u \in Users, kind \in InventoryKinds : inv[u][kind] < InitBoost

\* ---------------------------------------------------------------------
\* a cpu_turn task that outlives its game

\* the game that the cpu_turn task c read from the registry has been reset
\* or is no longer the game of the room
Stale(c) ==
  /\ tasks[c].kind = "cpu"
  /\ ~heap[tasks[c].game].is_running \/ games # tasks[c].game

\* a step of the cpu_turn task c
CpuStep(c) == CpuPlay(c) \/ CpuAdvance(c) \/ CpuWinReset(c) \/ CpuArm(c)

\* the step leaves the registry and the game in it alone
RegistryUnchanged ==
  /\ games' = games
  /\ IF games = 0 THEN TRUE ELSE heap'[games] = heap[games]

\* C39: a cpu_turn task whose game was stopped or replaced while it waited
\* changes nothing of the games of the registry when it goes on, and it reads
\* no roster entry that is out of range
C39_StaleCpuTurnIsInert ==
  [][ \A c \in TaskIds :
        (Stale(c) /\ CpuStep(c)) =>
          /\ RegistryUnchanged
          /\ tasks[c].pc = "think" => HasCurrent(heap[tasks[c].game]) ]_vars

\* ---------------------------------------------------------------------
\* the lobby phase

\* the game of the room is in its lobby phase
LobbyOpen == IF games = 0 THEN FALSE ELSE heap[games].is_lobby_open

\* the step keeps the lobby of the room open, and only a join changes the
\* roster
LobbyKept ==
  /\ IF games' = 0 THEN FALSE ELSE heap'[games'].is_lobby_open
  /\ \/ heap'[games'].players = heap[games].players
     \/ \E u \in Users : Join(u)

\* C40: while the lobby of the room is open only a join changes the roster,
\* and only begin or an authorized stop ends the lobby: neither /vscpu nor
\* /practice replaces the game
C40_LobbyEndsByBeginOrStop ==
  [][ LobbyOpen => (LobbyKept \/ (\E u \in Users : Begin(u)) \/ StopReset) ]_vars

====
